---- MODULE Spec2Model ----
(***************************************************************************)
(* The shared request/response contract of the WorkOS client library: the  *)
(* response classifier, the per-operation request path that composes with  *)
(* it, the device-code error refinement, and the cursor pagination         *)
(* protocol driven over the list operations.                               *)
(***************************************************************************)
EXTENDS Integers, Sequences, FiniteSets, TLC

(***************************************************************************)
(* Wire bodies.  A body is a sequence of lexical tokens; a token is a      *)
(* record [t, s].  "word" tokens are bare text (not JSON), "byte" tokens   *)
(* are bytes that are not valid UTF-8.                                     *)
(***************************************************************************)
Tok(t) == [t |-> t, s |-> ""]
StrTok(s) == [t |-> "str", s |-> s]
WordTok(w) == [t |-> "word", s |-> w]
LBrace == Tok("lbrace")
RBrace == Tok("rbrace")
LBrack == Tok("lbrack")
RBrack == Tok("rbrack")
Comma == Tok("comma")
Colon == Tok("colon")
NullTok == Tok("null")
TrueTok == Tok("true")
FalseTok == Tok("false")
BadByte == [t |-> "byte", s |-> "ff"]
ReplacementChar == [t |-> "word", s |-> "U+FFFD"]

(***************************************************************************)
(* JSON values (serde_json::Value).  An object keeps its members as a      *)
(* sequence of <<key, value>> pairs.                                       *)
(***************************************************************************)
JNull == [k |-> "null"]
JStr(s) == [k |-> "str", s |-> s]
JBool(b) == [k |-> "bool", b |-> b]
JArr(a) == [k |-> "arr", a |-> a]
JObj(m) == [k |-> "obj", m |-> m]

IsStr(v) == v.k = "str"
IsObj(v) == v.k = "obj"
IsArr(v) == v.k = "arr"
IsBool(v) == v.k = "bool"

\* Value::get(key): the member named key, if any.
HasKey(v, key) == IsObj(v) /\ \E i \in 1..Len(v.m) : v.m[i][1] = key
Get(v, key) == v.m[CHOOSE i \in 1..Len(v.m) : v.m[i][1] = key /\ \A j \in 1..Len(v.m) : v.m[j][1] = key => j <= i][2]
HasStr(v, key) == HasKey(v, key) /\ IsStr(Get(v, key))

\* Value::to_string(): the compact serialisation used by the fixtures.
RECURSIVE Serialise(_)
RECURSIVE SerialiseMembers(_)
RECURSIVE SerialiseElements(_)
SerialiseMembers(m) ==
    IF m = <<>> THEN <<>>
    ELSE <<StrTok(m[1][1]), Colon>> \o Serialise(m[1][2])
         \o (IF Len(m) = 1 THEN <<>> ELSE <<Comma>> \o SerialiseMembers(Tail(m)))
SerialiseElements(a) ==
    IF a = <<>> THEN <<>>
    ELSE Serialise(a[1])
         \o (IF Len(a) = 1 THEN <<>> ELSE <<Comma>> \o SerialiseElements(Tail(a)))
Serialise(v) ==
    CASE v.k = "null" -> <<NullTok>>
      [] v.k = "str" -> <<StrTok(v.s)>>
      [] v.k = "bool" -> <<IF v.b THEN TrueTok ELSE FalseTok>>
      [] v.k = "arr" -> <<LBrack>> \o SerialiseElements(v.a) \o <<RBrack>>
      [] v.k = "obj" -> <<LBrace>> \o SerialiseMembers(v.m) \o <<RBrace>>

\* serde_json::from_slice: recursive descent over the tokens.  A parse step
\* returns [ok, v, rest].  The result of a nested parse is bound once, as the
\* element of a singleton set, before the parser goes on from it.
ParseFail == [ok |-> FALSE, v |-> JNull, rest |-> <<>>]
ParseOk(v, rest) == [ok |-> TRUE, v |-> v, rest |-> rest]
The(S) == CHOOSE x \in S : TRUE
RECURSIVE ParseValue(_)
RECURSIVE ParseMembers(_, _)
RECURSIVE ParseElements(_, _)
MembersAfter(key, r, acc) ==
    IF ~r.ok \/ r.rest = <<>> THEN ParseFail
    ELSE IF Head(r.rest) = RBrace
         THEN ParseOk(JObj(Append(acc, <<key, r.v>>)), Tail(r.rest))
    ELSE IF Head(r.rest) = Comma
         THEN ParseMembers(Tail(r.rest), Append(acc, <<key, r.v>>))
    ELSE ParseFail
ParseMembers(toks, acc) ==
    IF Len(toks) < 3 \/ toks[1].t # "str" \/ toks[2] # Colon THEN ParseFail
    ELSE The({MembersAfter(toks[1].s, r, acc) : r \in {ParseValue(SubSeq(toks, 3, Len(toks)))}})
ElementsAfter(r, acc) ==
    IF ~r.ok \/ r.rest = <<>> THEN ParseFail
    ELSE IF Head(r.rest) = RBrack THEN ParseOk(JArr(Append(acc, r.v)), Tail(r.rest))
    ELSE IF Head(r.rest) = Comma THEN ParseElements(Tail(r.rest), Append(acc, r.v))
    ELSE ParseFail
ParseElements(toks, acc) ==
    The({ElementsAfter(r, acc) : r \in {ParseValue(toks)}})
ParseValue(toks) ==
    IF toks = <<>> THEN ParseFail
    ELSE LET h == Head(toks)
             rest == Tail(toks)
         IN  CASE h.t = "str" -> ParseOk(JStr(h.s), rest)
               [] h.t = "null" -> ParseOk(JNull, rest)
               [] h.t = "true" -> ParseOk(JBool(TRUE), rest)
               [] h.t = "false" -> ParseOk(JBool(FALSE), rest)
               [] h.t = "lbrace" ->
                    IF rest # <<>> /\ Head(rest) = RBrace
                    THEN ParseOk(JObj(<<>>), Tail(rest))
                    ELSE ParseMembers(rest, <<>>)
               [] h.t = "lbrack" ->
                    IF rest # <<>> /\ Head(rest) = RBrack
                    THEN ParseOk(JArr(<<>>), Tail(rest))
                    ELSE ParseElements(rest, <<>>)
               [] OTHER -> ParseFail
ParseJson(body) ==
    LET r == ParseValue(body)
    IN  IF r.ok /\ r.rest = <<>> THEN [ok |-> TRUE, v |-> r.v]
        ELSE [ok |-> FALSE, v |-> JNull]

\* Response::text(): lossy decoding, an invalid byte becomes U+FFFD.
TextOf(body) == [i \in 1..Len(body) |-> IF body[i].t = "byte" THEN ReplacementChar ELSE body[i]]

(***************************************************************************)
(* Outcomes of an operation: WorkOsResult<T, E>.                           *)
(***************************************************************************)
OkResult(v) == [kind |-> "Ok", value |-> v]
Operation(e) == [kind |-> "Operation", error |-> e]
Unauthorized == [kind |-> "Unauthorized"]
Unknown(status, body) == [kind |-> "Unknown", status |-> status, body |-> body]
UrlParseError == [kind |-> "UrlParseError"]
RequestError(cause) == [kind |-> "RequestError", cause |-> cause]
Json(v) == [k |-> "Json", v |-> v]
Text(t) == [k |-> "Text", t |-> t]
OutcomeKinds == {"Ok", "Operation", "Unauthorized", "Unknown", "UrlParseError", "RequestError"}

Unit == [k |-> "unit"]
None == [some |-> FALSE, v |-> ""]
Some(s) == [some |-> TRUE, v |-> s]

\* StatusCode::is_success, and is_client_error || is_server_error.
IsSuccess(status) == status >= 200 /\ status <= 299
IsErrorStatus(status) == status >= 400 /\ status <= 599
UNAUTHORIZED == 401

(***************************************************************************)
(* The response classifier, ResponseExt for Response.  A step on a         *)
(* response returns [err, e, reads]: whether it failed, the error, and the *)
(* reads of the body it made, in order.                                    *)
(***************************************************************************)
Pass(reads) == [err |-> FALSE, e |-> Unauthorized, reads |-> reads]
Fail(e, reads) == [err |-> TRUE, e |-> e, reads |-> reads]

handle_unauthorized_error(resp) ==
    IF resp.status = UNAUTHORIZED THEN Fail(Unauthorized, <<>>) ELSE Pass(<<>>)

handle_generic_error(resp) ==
    IF ~IsErrorStatus(resp.status) THEN Pass(<<>>)
    ELSE The({IF p.ok THEN Fail(Unknown(resp.status, Json(p.v)), <<"json">>)
              ELSE Fail(Unknown(resp.status, Text(TextOf(resp.body))), <<"json", "text">>)
              : p \in {ParseJson(resp.body)}})

handle_unauthorized_or_generic_error(resp) ==
    LET u == handle_unauthorized_error(resp)
    IN  IF u.err THEN u ELSE handle_generic_error(resp)

(***************************************************************************)
(* Typed decoding of a JSON value, Deserialize for T.  A decoder returns   *)
(* [ok, v].                                                                *)
(***************************************************************************)
DecodeFail == [ok |-> FALSE, v |-> Unit]
DecodeOk(v) == [ok |-> TRUE, v |-> v]

\* fga::Resource: both fields are required strings under their Rust names.
DecodeResource(j) ==
    IF HasStr(j, "resource_type") /\ HasStr(j, "resource_id")
    THEN DecodeOk([k |-> "Resource", resource_type |-> Get(j, "resource_type").s,
                   resource_id |-> Get(j, "resource_id").s])
    ELSE DecodeFail

\* Option<String>: an absent key or null is None.
DecodeCursor(j, key) ==
    IF ~HasKey(j, key) \/ Get(j, key) = JNull THEN DecodeOk(None)
    ELSE IF IsStr(Get(j, key)) THEN DecodeOk(Some(Get(j, key).s))
    ELSE DecodeFail

\* AuthenticateError: the body's error and error_description, both strings.
DecodeAuthenticateError(j) ==
    IF HasStr(j, "error") /\ HasStr(j, "error_description")
    THEN DecodeOk([k |-> "WithError", error |-> Get(j, "error").s,
                   error_description |-> Get(j, "error_description").s])
    ELSE DecodeFail

DeviceCodeTags ==
    [authorization_pending |-> "AuthorizationPending", slow_down |-> "SlowDown",
     access_denied |-> "AccessDenied", expired_token |-> "ExpiredToken"]

\* Mutants of the device-code error type: the variant names are matched
\* without the snake_case renaming; the Authenticate variant is not untagged.
DecodeDeviceCodeError_no_rename(j) ==
    IF HasStr(j, "error")
       /\ Get(j, "error").s \in {"AuthorizationPending", "SlowDown", "AccessDenied", "ExpiredToken"}
       /\ HasStr(j, "error_description")
    THEN DecodeOk([k |-> Get(j, "error").s,
                   error_description |-> Get(j, "error_description").s])
    ELSE LET a == DecodeAuthenticateError(j)
         IN  IF a.ok THEN DecodeOk([k |-> "Authenticate", e |-> a.v]) ELSE DecodeFail
DecodeDeviceCodeError_all_tagged(j) ==
    IF HasStr(j, "error") /\ Get(j, "error").s \in DOMAIN DeviceCodeTags
       /\ HasStr(j, "error_description")
    THEN DecodeOk([k |-> DeviceCodeTags[Get(j, "error").s],
                   error_description |-> Get(j, "error_description").s])
    ELSE DecodeFail

\* AuthenticateWithDeviceCodeError: internally tagged on "error"; when the
\* tagged shapes do not match, the untagged Authenticate variant is tried.
DecodeDeviceCodeError(j) ==
    IF HasStr(j, "error") /\ Get(j, "error").s \in DOMAIN DeviceCodeTags
       /\ HasStr(j, "error_description")
    THEN DecodeOk([k |-> DeviceCodeTags[Get(j, "error").s],
                   error_description |-> Get(j, "error_description").s])
    ELSE LET a == DecodeAuthenticateError(j)
         IN  IF a.ok THEN DecodeOk([k |-> "Authenticate", e |-> a.v]) ELSE DecodeFail

AuthenticateError_is_unauthorized(e) ==
    e.k = "WithError" /\ e.error \in {"invalid_client", "unauthorized_client"}

\* Mutant: no device-code error counts as unauthorized.
is_unauthorized_never(e) == FALSE

is_unauthorized(e) == e.k = "Authenticate" /\ AuthenticateError_is_unauthorized(e.e)

\* Mutant: a body that does not decode as the operation's error type ends
\* the call in a request error, with no generic fallback.
handle_authenticate_error_no_fallback(resp) ==
    IF IsSuccess(resp.status) THEN Pass(<<>>)
    ELSE The({IF d.ok
              THEN Fail(IF is_unauthorized(d.v) THEN Unauthorized ELSE Operation(d.v), <<"E">>)
              ELSE Fail(RequestError("decode"), <<"E">>)
              : d \in {IF p.ok THEN DecodeDeviceCodeError(p.v) ELSE DecodeFail
                       : p \in {ParseJson(resp.body)}}})

\* HandleAuthenticateError for Response: the operation's own error type is
\* decoded from the body first; the generic split is the fallback.
handle_authenticate_error(resp) ==
    IF IsSuccess(resp.status) THEN Pass(<<>>)
    ELSE The({IF d.ok
              THEN Fail(IF is_unauthorized(d.v) THEN Unauthorized ELSE Operation(d.v), <<"E">>)
              ELSE LET g == handle_unauthorized_or_generic_error(resp)
                   IN  [g EXCEPT !.reads = <<"E">> \o g.reads]
              : d \in {IF p.ok THEN DecodeDeviceCodeError(p.v) ELSE DecodeFail
                       : p \in {ParseJson(resp.body)}}})

\* fga::Policy: description is optional, the other fields are required.
DecodePolicyParameter(j) == HasStr(j, "name") /\ HasStr(j, "type")
DecodePolicy(j) ==
    IF /\ HasStr(j, "name") /\ HasStr(j, "language") /\ HasStr(j, "expression")
       /\ HasKey(j, "parameters") /\ IsArr(Get(j, "parameters"))
       /\ \A i \in 1..Len(Get(j, "parameters").a) : DecodePolicyParameter(Get(j, "parameters").a[i])
       /\ (HasKey(j, "description") => Get(j, "description") = JNull \/ IsStr(Get(j, "description")))
    THEN DecodeOk([k |-> "Policy", name |-> Get(j, "name").s])
    ELSE DecodeFail

\* fga::Warrant, with its nested Subject.
DecodeSubject(j) == HasStr(j, "resource_type") /\ HasStr(j, "resource_id")
DecodeWarrant(j) ==
    IF /\ HasStr(j, "resource_type") /\ HasStr(j, "resource_id") /\ HasStr(j, "relation")
       /\ HasKey(j, "subject") /\ DecodeSubject(Get(j, "subject"))
    THEN DecodeOk([k |-> "Warrant", resource_type |-> Get(j, "resource_type").s,
                   resource_id |-> Get(j, "resource_id").s, relation |-> Get(j, "relation").s])
    ELSE DecodeFail

\* fga::InheritRule: relation and from are required strings.
DecodeInheritRule(j) ==
    IF HasStr(j, "relation") /\ HasStr(j, "from")
    THEN DecodeOk([relation |-> Get(j, "relation").s, from |-> Get(j, "from").s])
    ELSE DecodeFail

\* fga::RelationRule, untagged: the variants This, Inherit, Union are tried
\* in declaration order, each as a struct with its one required field; other
\* members of the object are ignored.
This(v) == [k |-> "This", this |-> v]
Inherit(r) == [k |-> "Inherit", inherit |-> r]
Union(rules) == [k |-> "Union", union |-> rules]
RECURSIVE DecodeRelationRule_union_first(_)
DecodeRelationRule_union_first(j) ==
    IF /\ HasKey(j, "union") /\ IsArr(Get(j, "union"))
       /\ \A i \in 1..Len(Get(j, "union").a) : DecodeRelationRule_union_first(Get(j, "union").a[i]).ok
    THEN DecodeOk(Union([i \in 1..Len(Get(j, "union").a) |->
                           DecodeRelationRule_union_first(Get(j, "union").a[i]).v]))
    ELSE IF HasKey(j, "inherit") /\ DecodeInheritRule(Get(j, "inherit")).ok
    THEN DecodeOk(Inherit(DecodeInheritRule(Get(j, "inherit")).v))
    ELSE IF HasKey(j, "this") THEN DecodeOk(This(Get(j, "this")))
    ELSE DecodeFail
RECURSIVE DecodeRelationRule(_)
DecodeRelationRule(j) ==
    IF HasKey(j, "this") THEN DecodeOk(This(Get(j, "this")))
    ELSE IF HasKey(j, "inherit") /\ DecodeInheritRule(Get(j, "inherit")).ok
    THEN DecodeOk(Inherit(DecodeInheritRule(Get(j, "inherit")).v))
    ELSE IF /\ HasKey(j, "union") /\ IsArr(Get(j, "union"))
            /\ \A i \in 1..Len(Get(j, "union").a) : DecodeRelationRule(Get(j, "union").a[i]).ok
    THEN DecodeOk(Union([i \in 1..Len(Get(j, "union").a) |->
                           DecodeRelationRule(Get(j, "union").a[i]).v]))
    ELSE DecodeFail

\* fga::ResourceType: `type` is required, relations defaults to empty; each
\* relation holds a rule.
DecodeResourceType(j) ==
    IF /\ HasStr(j, "type")
       /\ HasKey(j, "relations") =>
             /\ IsObj(Get(j, "relations"))
             /\ \A i \in 1..Len(Get(j, "relations").m) :
                   DecodeRelationRule(Get(j, "relations").m[i][2]).ok
    THEN DecodeOk([k |-> "ResourceType", type |-> Get(j, "type").s,
                   relations |-> IF HasKey(j, "relations")
                                 THEN [i \in 1..Len(Get(j, "relations").m) |->
                                         <<Get(j, "relations").m[i][1],
                                           DecodeRelationRule(Get(j, "relations").m[i][2]).v>>]
                                 ELSE <<>>])
    ELSE DecodeFail

\* The enums held in KnownOrUnknown fields: their variants, and the wire
\* name rename_all = "snake_case" gives each variant.
VerificationType == {"EmailVerification"}
VerificationStatus == {"Succeeded", "Failed", "Pending", "Cancelled", "Expired"}
DirectoryUserState == {"Active", "Inactive", "Suspended"}
OrganizationMembershipStatus == {"Active", "Inactive", "Pending"}
Variants(E) ==
    CASE E = "VerificationType" -> VerificationType
      [] E = "VerificationStatus" -> VerificationStatus
      [] E = "DirectoryUserState" -> DirectoryUserState
      [] E = "OrganizationMembershipStatus" -> OrganizationMembershipStatus
SnakeCase(variant) ==
    CASE variant = "EmailVerification" -> "email_verification"
      [] variant = "Succeeded" -> "succeeded"
      [] variant = "Failed" -> "failed"
      [] variant = "Pending" -> "pending"
      [] variant = "Cancelled" -> "cancelled"
      [] variant = "Expired" -> "expired"
      [] variant = "Active" -> "active"
      [] variant = "Inactive" -> "inactive"
      [] variant = "Suspended" -> "suspended"

\* Deserialize for an enum of unit variants: a string that is the wire name
\* of a variant.
DecodeEnum(E, j) ==
    IF IsStr(j) /\ \E v \in Variants(E) : SnakeCase(v) = j.s
    THEN DecodeOk(CHOOSE v \in Variants(E) : SnakeCase(v) = j.s)
    ELSE DecodeFail

\* KnownOrUnknown<K, String>, untagged: Known(K) is tried first, then
\* Unknown(String).
Known(v) == [k |-> "Known", v |-> v]
UnknownString(s) == [k |-> "Unknown", v |-> s]
DecodeKnownOrUnknown_known_only(E, j) ==
    IF DecodeEnum(E, j).ok THEN DecodeOk(Known(DecodeEnum(E, j).v)) ELSE DecodeFail
DecodeKnownOrUnknown(E, j) ==
    IF DecodeEnum(E, j).ok THEN DecodeOk(Known(DecodeEnum(E, j).v))
    ELSE IF IsStr(j) THEN DecodeOk(UnknownString(j.s))
    ELSE DecodeFail

\* Option<String> field: absent, null or a string.
OptionalStr(j, key) == ~HasKey(j, key) \/ Get(j, key) = JNull \/ IsStr(Get(j, key))

\* webhooks::Verification.
DecodeVerification(j) ==
    IF /\ HasKey(j, "type") /\ DecodeKnownOrUnknown("VerificationType", Get(j, "type")).ok
       /\ HasKey(j, "status") /\ DecodeKnownOrUnknown("VerificationStatus", Get(j, "status")).ok
       /\ HasStr(j, "user_id") /\ OptionalStr(j, "email")
       /\ HasStr(j, "ip_address") /\ HasStr(j, "user_agent")
    THEN DecodeOk([k |-> "Verification",
                   type |-> DecodeKnownOrUnknown("VerificationType", Get(j, "type")).v,
                   status |-> DecodeKnownOrUnknown("VerificationStatus", Get(j, "status")).v,
                   user_id |-> Get(j, "user_id").s])
    ELSE DecodeFail

\* directory_sync::DirectoryUser.
DecodeDirectoryUser(j) ==
    IF /\ HasStr(j, "id") /\ HasStr(j, "idp_id") /\ HasStr(j, "directory_id")
       /\ OptionalStr(j, "organization_id") /\ OptionalStr(j, "first_name")
       /\ OptionalStr(j, "last_name")
       /\ HasKey(j, "emails") /\ IsArr(Get(j, "emails"))
       /\ HasKey(j, "groups") /\ IsArr(Get(j, "groups"))
       /\ HasKey(j, "state") /\ DecodeKnownOrUnknown("DirectoryUserState", Get(j, "state")).ok
       /\ HasKey(j, "custom_attributes") /\ IsObj(Get(j, "custom_attributes"))
       /\ HasKey(j, "role") /\ HasStr(Get(j, "role"), "slug")
       /\ HasStr(j, "created_at") /\ HasStr(j, "updated_at")
    THEN DecodeOk([k |-> "DirectoryUser", id |-> Get(j, "id").s,
                   state |-> DecodeKnownOrUnknown("DirectoryUserState", Get(j, "state")).v])
    ELSE DecodeFail

\* user_management::OrganizationMembership: its id and its status.
DecodeOrganizationMembership(j) ==
    IF /\ HasStr(j, "id")
       /\ HasKey(j, "status")
       /\ DecodeKnownOrUnknown("OrganizationMembershipStatus", Get(j, "status")).ok
    THEN DecodeOk([k |-> "OrganizationMembership", id |-> Get(j, "id").s,
                   status |-> DecodeKnownOrUnknown("OrganizationMembershipStatus",
                                                   Get(j, "status")).v])
    ELSE DecodeFail

\* user_management::AuthenticationResponse.
DecodeAuthenticationResponse(j) ==
    IF /\ HasKey(j, "user") /\ HasStr(Get(j, "user"), "id")
       /\ HasStr(j, "access_token") /\ HasStr(j, "refresh_token")
    THEN DecodeOk([k |-> "AuthenticationResponse", user_id |-> Get(Get(j, "user"), "id").s,
                   access_token |-> Get(j, "access_token").s,
                   refresh_token |-> Get(j, "refresh_token").s])
    ELSE DecodeFail

\* Deserialize for the item type T of a list.
\* fga::QueryResponse: the flattened Resource, relation, warrant and
\* is_implicit are required, meta is optional.
DecodeQueryResponse(j) ==
    IF /\ DecodeResource(j).ok /\ HasStr(j, "relation")
       /\ HasKey(j, "warrant") /\ DecodeWarrant(Get(j, "warrant")).ok
       /\ HasKey(j, "is_implicit") /\ IsBool(Get(j, "is_implicit"))
    THEN DecodeOk([k |-> "QueryResponse", resource |-> DecodeResource(j).v,
                   relation |-> Get(j, "relation").s])
    ELSE DecodeFail

\* fga::CheckResult: subject, relation, resource and allowed are required.
DecodeCheckResult(j) ==
    IF /\ HasStr(j, "subject") /\ HasStr(j, "relation") /\ HasStr(j, "resource")
       /\ HasKey(j, "allowed") /\ IsBool(Get(j, "allowed"))
    THEN DecodeOk([k |-> "CheckResult", subject |-> Get(j, "subject").s,
                   allowed |-> Get(j, "allowed").b])
    ELSE DecodeFail

DecodeItem(T, j) ==
    CASE T = "Policy" -> DecodePolicy(j)
      [] T = "CheckResult" -> DecodeCheckResult(j)
      [] T = "QueryResponse" -> DecodeQueryResponse(j)
      [] T = "Resource" -> DecodeResource(j)
      [] T = "Warrant" -> DecodeWarrant(j)
      [] T = "ResourceType" -> DecodeResourceType(j)
      [] T = "OrganizationMembership" -> DecodeOrganizationMembership(j)

\* Mutant: the list holds the items in the reverse of the response's order.
DecodePaginatedList_reversed(j, T) ==
    IF /\ HasKey(j, "data") /\ IsArr(Get(j, "data"))
       /\ \A i \in 1..Len(Get(j, "data").a) : DecodeItem(T, Get(j, "data").a[i]).ok
       /\ HasKey(j, "list_metadata") /\ IsObj(Get(j, "list_metadata"))
       /\ DecodeCursor(Get(j, "list_metadata"), "before").ok
       /\ DecodeCursor(Get(j, "list_metadata"), "after").ok
    THEN DecodeOk([k |-> "PaginatedList",
                   data |-> [i \in 1..Len(Get(j, "data").a) |->
                               DecodeItem(T, Get(j, "data").a[Len(Get(j, "data").a) + 1 - i]).v],
                   list_metadata |-> [before |-> DecodeCursor(Get(j, "list_metadata"), "before").v,
                                      after |-> DecodeCursor(Get(j, "list_metadata"), "after").v]])
    ELSE DecodeFail

\* PaginatedList<T>: data in the order of the response, and the two cursors.
DecodePaginatedList(j, T) ==
    IF /\ HasKey(j, "data") /\ IsArr(Get(j, "data"))
       /\ \A i \in 1..Len(Get(j, "data").a) : DecodeItem(T, Get(j, "data").a[i]).ok
       /\ HasKey(j, "list_metadata") /\ IsObj(Get(j, "list_metadata"))
       /\ DecodeCursor(Get(j, "list_metadata"), "before").ok
       /\ DecodeCursor(Get(j, "list_metadata"), "after").ok
    THEN DecodeOk([k |-> "PaginatedList",
                   data |-> [i \in 1..Len(Get(j, "data").a) |-> DecodeItem(T, Get(j, "data").a[i]).v],
                   list_metadata |-> [before |-> DecodeCursor(Get(j, "list_metadata"), "before").v,
                                      after |-> DecodeCursor(Get(j, "list_metadata"), "after").v]])
    ELSE DecodeFail
\* Vec<T>: an array, its elements in the order of the response.
DecodeVec(j, T) ==
    IF IsArr(j) /\ \A i \in 1..Len(j.a) : DecodeItem(T, j.a[i]).ok
    THEN DecodeOk([i \in 1..Len(j.a) |-> DecodeItem(T, j.a[i]).v])
    ELSE DecodeFail
DecodePolicyList(j) == DecodePaginatedList(j, "Policy")
DecodeResourceList(j) == DecodePaginatedList(j, "Resource")
DecodeWarrantList(j) == DecodePaginatedList(j, "Warrant")
DecodeResourceTypeList(j) == DecodePaginatedList(j, "ResourceType")
DecodeOrganizationMembershipList(j) ==
    DecodePaginatedList(j, "OrganizationMembership")

(***************************************************************************)
(* The tail of an operation after the classifier: `?` on the classifier's  *)
(* result, then either Ok(()) or Response::json::<T>() and `?` again.  A   *)
(* run returns [result, reads].                                            *)
(***************************************************************************)
\* Response::json::<T>() for the result type T of an operation.
\* organizations::Organization: id, name, allow_profiles_outside_organization
\* and domains are required, as are the flattened timestamps; the three
\* Option fields may be absent.
DecodeOrganization(j) ==
    IF /\ HasStr(j, "id") /\ HasStr(j, "name")
       /\ HasKey(j, "allow_profiles_outside_organization")
       /\ IsBool(Get(j, "allow_profiles_outside_organization"))
       /\ HasKey(j, "domains") /\ IsArr(Get(j, "domains"))
       /\ HasStr(j, "created_at") /\ HasStr(j, "updated_at")
    THEN DecodeOk([k |-> "Organization", id |-> Get(j, "id").s, name |-> Get(j, "name").s])
    ELSE DecodeFail

Decode(T, j) ==
    CASE T = "Resource" -> DecodeResource(j)
      [] T = "Organization" -> DecodeOrganization(j)
      [] T = "Verification" -> DecodeVerification(j)
      [] T = "ResourceType" -> DecodeResourceType(j)
      [] T = "DirectoryUser" -> DecodeDirectoryUser(j)
      [] T = "OrganizationMembership" -> DecodeOrganizationMembership(j)
      [] T = "Policy" -> DecodePolicy(j)
      [] T = "AuthenticationResponse" -> DecodeAuthenticationResponse(j)
      [] T = "PaginatedList<Policy>" -> DecodePolicyList(j)
      [] T = "PaginatedList<Resource>" -> DecodeResourceList(j)
      [] T = "PaginatedList<Warrant>" -> DecodeWarrantList(j)
      [] T = "PaginatedList<ResourceType>" -> DecodeResourceTypeList(j)
      [] T = "PaginatedList<OrganizationMembership>" -> DecodeOrganizationMembershipList(j)
      [] T = "PaginatedList<QueryResponse>" -> DecodePaginatedList(j, "QueryResponse")
      [] T = "Vec<CheckResult>" -> DecodeVec(j, "CheckResult")
      [] T = "Vec<ResourceType>" -> DecodeVec(j, "ResourceType")

ThenUnit(c) ==
    IF c.err THEN [result |-> c.e, reads |-> c.reads]
    ELSE [result |-> OkResult(Unit), reads |-> c.reads]

ThenJson(c, resp, T) ==
    IF c.err THEN [result |-> c.e, reads |-> c.reads]
    ELSE The({[result |-> IF d.ok THEN OkResult(d.v) ELSE RequestError("decode"),
               reads |-> Append(c.reads, "T")]
              : d \in {IF p.ok THEN Decode(T, p.v) ELSE DecodeFail : p \in {ParseJson(resp.body)}}})

\* The operations: what each does with the response to its request.
\* Mutants of operations: the classifier is not called, or a decode failure
\* of the success body is reported as an unknown error.
list_warrants_unclassified(resp) == ThenJson(Pass(<<>>), resp, "PaginatedList<Warrant>")
create_resource_unclassified(resp) == ThenJson(Pass(<<>>), resp, "Resource")
create_resource_decode_unknown(resp) ==
    LET r == ThenJson(handle_unauthorized_or_generic_error(resp), resp, "Resource")
    IN  IF r.result.kind = "RequestError"
        THEN [r EXCEPT !.result = Unknown(resp.status, Text(TextOf(resp.body)))]
        ELSE r
delete_resource_unclassified(resp) == ThenUnit(Pass(<<>>))
delete_policy_unauthorized_only(resp) == ThenUnit(handle_unauthorized_error(resp))

list_warrants(resp) == ThenJson(handle_unauthorized_or_generic_error(resp), resp, "PaginatedList<Warrant>")
list_policies(resp) == ThenJson(handle_unauthorized_or_generic_error(resp), resp, "PaginatedList<Policy>")
list_resources(resp) == ThenJson(handle_unauthorized_or_generic_error(resp), resp, "PaginatedList<Resource>")
list_resource_types(resp) ==
    ThenJson(handle_unauthorized_or_generic_error(resp), resp, "PaginatedList<ResourceType>")
list_organization_memberships(resp) ==
    ThenJson(handle_unauthorized_or_generic_error(resp), resp, "PaginatedList<OrganizationMembership>")
get_policy(resp) == ThenJson(handle_unauthorized_or_generic_error(resp), resp, "Policy")
create_resource(resp) == ThenJson(handle_unauthorized_or_generic_error(resp), resp, "Resource")
get_resource(resp) == ThenJson(handle_unauthorized_or_generic_error(resp), resp, "Resource")
update_resource(resp) == ThenJson(handle_unauthorized_or_generic_error(resp), resp, "Resource")
query(resp) ==
    ThenJson(handle_unauthorized_or_generic_error(resp), resp, "PaginatedList<QueryResponse>")
batch_check(resp) == ThenJson(handle_unauthorized_or_generic_error(resp), resp, "Vec<CheckResult>")
apply_resource_types(resp) ==
    ThenJson(handle_unauthorized_or_generic_error(resp), resp, "Vec<ResourceType>")
delete_resource(resp) == ThenUnit(handle_unauthorized_or_generic_error(resp))
delete_policy(resp) == ThenUnit(handle_unauthorized_or_generic_error(resp))
delete_warrant(resp) == ThenUnit(handle_unauthorized_or_generic_error(resp))
batch_write_resources(resp) == ThenUnit(handle_unauthorized_or_generic_error(resp))
batch_write_warrants(resp) == ThenUnit(handle_unauthorized_or_generic_error(resp))
apply_schema(resp) == ThenUnit(handle_unauthorized_or_generic_error(resp))
delete_resource_type(resp) == ThenUnit(handle_unauthorized_or_generic_error(resp))
delete_organization_domain(resp) == ThenUnit(handle_unauthorized_or_generic_error(resp))
\* Mutant: the operation decodes the success body although it returns unit.
delete_factor_decodes(resp) ==
    LET r == ThenJson(handle_unauthorized_or_generic_error(resp), resp, "Resource")
    IN  IF r.result.kind = "Ok" THEN [r EXCEPT !.result = OkResult(Unit)] ELSE r
delete_factor(resp) == ThenUnit(handle_unauthorized_or_generic_error(resp))
authenticate_with_device_code(resp) ==
    ThenJson(handle_authenticate_error(resp), resp, "AuthenticationResponse")
\* Mutant: the answer allowed=false is turned into the operation error.
get_organization_by_external_id(resp) ==
    ThenJson(handle_unauthorized_or_generic_error(resp), resp, "Organization")
check_denies(resp) ==
    LET c == handle_unauthorized_or_generic_error(resp)
    IN  IF c.err THEN [result |-> c.e, reads |-> c.reads]
        ELSE The({IF ~p.ok THEN [result |-> RequestError("decode"), reads |-> Append(c.reads, "T")]
                  ELSE IF HasKey(p.v, "allowed") /\ Get(p.v, "allowed") = JBool(TRUE)
                       THEN [result |-> OkResult(JBool(TRUE)), reads |-> Append(c.reads, "T")]
                       ELSE [result |-> Operation([k |-> "NotAllowed"]), reads |-> Append(c.reads, "T")]
                  : p \in {ParseJson(resp.body)}})
check(resp) ==
    LET c == handle_unauthorized_or_generic_error(resp)
    IN  IF c.err THEN [result |-> c.e, reads |-> c.reads]
        ELSE The({IF ~p.ok THEN [result |-> RequestError("decode"), reads |-> Append(c.reads, "T")]
                  ELSE IF HasKey(p.v, "allowed") /\ IsBool(Get(p.v, "allowed"))
                       THEN [result |-> OkResult(Get(p.v, "allowed")), reads |-> Append(c.reads, "T")]
                       ELSE [result |-> Operation([k |-> "NotAllowed"]), reads |-> Append(c.reads, "T")]
                  : p \in {ParseJson(resp.body)}})

ListOps == {"list_warrants", "list_policies", "list_resources", "list_resource_types",
            "list_organization_memberships"}
UnitOps == {"delete_resource", "delete_policy", "delete_resource_type", "delete_warrant",
            "batch_write_resources", "batch_write_warrants", "apply_schema", "delete_factor",
            "delete_organization_domain"}
Operations ==
    ListOps \cup UnitOps
    \cup {"create_resource", "get_policy", "check", "authenticate_with_device_code",
          "get_resource", "update_resource", "query", "batch_check", "apply_resource_types"}
GenericOps == Operations \ {"authenticate_with_device_code"}

Run(o, resp) ==
    CASE o = "list_warrants" -> list_warrants(resp)
      [] o = "list_policies" -> list_policies(resp)
      [] o = "list_resources" -> list_resources(resp)
      [] o = "list_resource_types" -> list_resource_types(resp)
      [] o = "list_organization_memberships" -> list_organization_memberships(resp)
      [] o = "create_resource" -> create_resource(resp)
      [] o = "get_policy" -> get_policy(resp)
      [] o = "get_resource" -> get_resource(resp)
      [] o = "update_resource" -> update_resource(resp)
      [] o = "query" -> query(resp)
      [] o = "batch_check" -> batch_check(resp)
      [] o = "apply_resource_types" -> apply_resource_types(resp)
      [] o = "delete_resource" -> delete_resource(resp)
      [] o = "delete_policy" -> delete_policy(resp)
      [] o = "delete_warrant" -> delete_warrant(resp)
      [] o = "batch_write_resources" -> batch_write_resources(resp)
      [] o = "batch_write_warrants" -> batch_write_warrants(resp)
      [] o = "apply_schema" -> apply_schema(resp)
      [] o = "delete_factor" -> delete_factor(resp)
      [] o = "delete_resource_type" -> delete_resource_type(resp)
      [] o = "delete_organization_domain" -> delete_organization_domain(resp)
      [] o = "authenticate_with_device_code" -> authenticate_with_device_code(resp)
      [] o = "check" -> check(resp)
      [] o = "get_organization_by_external_id" -> get_organization_by_external_id(resp)

(***************************************************************************)
(* Requests.  Each operation's verb, path, whether it attaches the bearer  *)
(* credential and whether it serialises its parameters as the query.       *)
(***************************************************************************)
Endpoint(verb, path, bearer, params_as_query) ==
    [verb |-> verb, path |-> path, bearer |-> bearer, query |-> params_as_query]
\* Mutants: the list operation does not serialise its parameters as the query.
list_policies_request_no_query == Endpoint("GET", "/fga/v1/policies", TRUE, FALSE)
list_resources_request_no_query == Endpoint("GET", "/fga/v1/resources", TRUE, FALSE)
list_warrants_request_no_query == Endpoint("GET", "/fga/v1/warrants", TRUE, FALSE)
list_resource_types_request_no_query == Endpoint("GET", "/fga/v1/resource-types", TRUE, FALSE)
list_resource_types_request == Endpoint("GET", "/fga/v1/resource-types", TRUE, TRUE)
list_warrants_request == Endpoint("GET", "/fga/v1/warrants", TRUE, TRUE)
list_policies_request == Endpoint("GET", "/fga/v1/policies", TRUE, TRUE)
list_resources_request == Endpoint("GET", "/fga/v1/resources", TRUE, TRUE)
list_organization_memberships_request ==
    Endpoint("GET", "/user_management/organization_memberships", TRUE, TRUE)
get_policy_request == Endpoint("GET", "/fga/v1/policies/{}", TRUE, FALSE)
create_resource_request == Endpoint("POST", "/fga/v1/resources", TRUE, FALSE)
delete_resource_request == Endpoint("DELETE", "/fga/v1/resources/{}/{}", TRUE, FALSE)
delete_policy_request == Endpoint("DELETE", "/fga/v1/policies/{}", TRUE, FALSE)
delete_warrant_request == Endpoint("DELETE", "/fga/v1/warrants", TRUE, FALSE)
batch_write_resources_request == Endpoint("POST", "/fga/v1/resources/batch", TRUE, FALSE)
batch_write_warrants_request == Endpoint("POST", "/fga/v1/warrants/batch", TRUE, FALSE)
apply_schema_request == Endpoint("PUT", "/fga/v1/schema", TRUE, FALSE)
delete_resource_type_request == Endpoint("DELETE", "/fga/v1/resource-types/{}", TRUE, FALSE)
delete_organization_domain_request == Endpoint("DELETE", "/organization_domains/{}", TRUE, FALSE)
delete_factor_request == Endpoint("DELETE", "/auth/factors/{}", TRUE, FALSE)
authenticate_with_device_code_request == Endpoint("POST", "/user_management/authenticate", FALSE, FALSE)
check_request_no_bearer == Endpoint("POST", "/fga/v1/check", FALSE, FALSE)
check_request == Endpoint("POST", "/fga/v1/check", TRUE, FALSE)
get_resource_request == Endpoint("GET", "/fga/v1/resources/{}/{}", TRUE, FALSE)
update_resource_request == Endpoint("PUT", "/fga/v1/resources/{}/{}", TRUE, FALSE)
query_request == Endpoint("GET", "/fga/v1/query", TRUE, FALSE)
batch_check_request == Endpoint("POST", "/fga/v1/check/batch", TRUE, FALSE)
apply_resource_types_request == Endpoint("PUT", "/fga/v1/resource-types", TRUE, FALSE)

RequestOf(o) ==
    CASE o = "list_warrants" -> list_warrants_request
      [] o = "list_policies" -> list_policies_request
      [] o = "list_resources" -> list_resources_request
      [] o = "list_resource_types" -> list_resource_types_request
      [] o = "list_organization_memberships" -> list_organization_memberships_request
      [] o = "create_resource" -> create_resource_request
      [] o = "get_policy" -> get_policy_request
      [] o = "get_resource" -> get_resource_request
      [] o = "update_resource" -> update_resource_request
      [] o = "query" -> query_request
      [] o = "batch_check" -> batch_check_request
      [] o = "apply_resource_types" -> apply_resource_types_request
      [] o = "delete_resource" -> delete_resource_request
      [] o = "delete_policy" -> delete_policy_request
      [] o = "delete_warrant" -> delete_warrant_request
      [] o = "batch_write_resources" -> batch_write_resources_request
      [] o = "batch_write_warrants" -> batch_write_warrants_request
      [] o = "apply_schema" -> apply_schema_request
      [] o = "delete_factor" -> delete_factor_request
      [] o = "delete_resource_type" -> delete_resource_type_request
      [] o = "delete_organization_domain" -> delete_organization_domain_request
      [] o = "authenticate_with_device_code" -> authenticate_with_device_code_request
      [] o = "check" -> check_request

\* PaginationParams { limit, before, after, order }, order defaulting to desc.
NoLimit == [some |-> FALSE, v |-> 0]
Limit(n) == [some |-> TRUE, v |-> n]
PaginationParams(limit, before, after) ==
    [limit |-> limit, before |-> before, after |-> after, order |-> "desc"]
DefaultPagination == PaginationParams(NoLimit, None, None)

\* Serialize for PaginationParams as a query: an Option that is None is left out.
PaginationQuery(p) ==
    (IF p.limit.some THEN << <<"limit", p.limit.v>> >> ELSE <<>>)
    \o (IF p.before.some THEN << <<"before", p.before.v>> >> ELSE <<>>)
    \o (IF p.after.some THEN << <<"after", p.after.v>> >> ELSE <<>>)
    \o << <<"order", p.order>> >>

\* A field of type Option<&str>: left out of the query when None.
OptionPair(key, value) == IF value.some THEN << <<key, value.v>> >> ELSE <<>>

\* ListWarrantsParams: the flattened pagination, then the five filters in
\* their declaration order.
ListWarrantsParams(pagination, subject_type, subject_id, relation, resource_type, resource_id) ==
    [limit |-> pagination.limit, before |-> pagination.before,
     after |-> pagination.after, order |-> pagination.order,
     subject_type |-> subject_type, subject_id |-> subject_id,
     relation |-> relation, resource_type |-> resource_type,
     resource_id |-> resource_id]

ListWarrantsFilters_keep_none(p) ==
    << <<"subject_type", p.subject_type.v>>, <<"subject_id", p.subject_id.v>>,
       <<"relation", p.relation.v>>, <<"resource_type", p.resource_type.v>>,
       <<"resource_id", p.resource_id.v>> >>

\* The filter fields of ListWarrantsParams, each skip_serializing_if None.
ListWarrantsFilters(p) ==
    OptionPair("subject_type", p.subject_type)
    \o OptionPair("subject_id", p.subject_id)
    \o OptionPair("relation", p.relation)
    \o OptionPair("resource_type", p.resource_type)
    \o OptionPair("resource_id", p.resource_id)

\* ListOrganizationMembershipsFilter, an untagged enum of two variants with
\* one field each.
Organization(organization_id) ==
    [variant |-> "Organization", organization_id |-> organization_id]
User(user_id) == [variant |-> "User", user_id |-> user_id]

ListOrganizationMembershipsFilter_both_keys(f) ==
    << <<"organization_id", IF f.variant = "Organization" THEN f.organization_id ELSE "">>,
       <<"user_id", IF f.variant = "User" THEN f.user_id ELSE "">> >>

\* Serialize for the untagged filter: the fields of the variant, no tag.
ListOrganizationMembershipsFilter(f) ==
    IF f.variant = "Organization"
    THEN << <<"organization_id", f.organization_id>> >>
    ELSE << <<"user_id", f.user_id>> >>

\* StatusFilters: the statuses as one comma-separated value.
StatusFilters(statuses) == Some(statuses)

\* ListOrganizationMembershipsParams: the flattened pagination, the
\* flattened filter, then statuses.
ListOrganizationMembershipsParams(pagination, filter, statuses) ==
    [limit |-> pagination.limit, before |-> pagination.before,
     after |-> pagination.after, order |-> pagination.order,
     filter |-> filter, statuses |-> statuses]

\* The parameters an operation is called with when the caller gives the
\* pagination alone: every other field takes its Default, and the
\* organization memberships are those of one user.
\* The arguments of query: the token given instead of the API key, if any,
\* and QueryParams with its flattened pagination.
QueryArgs(token, pagination) ==
    [limit |-> pagination.limit, before |-> pagination.before,
     after |-> pagination.after, order |-> pagination.order,
     token |-> token, warrant_token |-> None, q |-> "", context |-> None]

DefaultUser == "user_01E4ZCR3C5A4QZ2Z2JQXGKZJ9E"
DefaultOrganization == "org_01E4ZCR3C56J083X43JQXF3JK5"
ParamsOf(o, p) ==
    IF o = "list_warrants" /\ "relation" \notin DOMAIN p
    THEN ListWarrantsParams(p, None, None, None, None, None)
    ELSE IF o = "list_organization_memberships" /\ "filter" \notin DOMAIN p
    THEN ListOrganizationMembershipsParams(p, User(DefaultUser), None)
    ELSE IF o = "query" /\ "token" \notin DOMAIN p
    THEN QueryArgs(None, p)
    ELSE p

\* Serialize for the parameters of an operation as a query, field by field
\* in declaration order.
ParamsQuery(o, p) ==
    CASE o = "list_warrants" -> PaginationQuery(p) \o ListWarrantsFilters(p)
      [] o = "list_organization_memberships" ->
            PaginationQuery(p) \o ListOrganizationMembershipsFilter(p.filter)
            \o OptionPair("statuses", p.statuses)
      [] OTHER -> PaginationQuery(p)

\* Url::join on the client's base URL: fails on a cannot-be-a-base URL.
GoodBase == "https://api.workos.com"
OpaqueBase == "mailto:workos"
BaseUrls == {GoodBase, OpaqueBase}
\* Mutant: joining never fails.
JoinUrl_lenient(base, path) == [ok |-> TRUE, url |-> <<base, path>>]
JoinUrl(base, path) == [ok |-> base # OpaqueBase, url |-> <<base, path>>]

ApiKey == "sk_example_123456789"

NoRequest == [verb |-> "", url |-> <<>>, query |-> <<>>, bearer |-> None]
NoResponse == [status |-> 0, body |-> <<>>]
NoResult == [kind |-> "none"]
NoParams == [none |-> TRUE]
NoMemo == [set |-> FALSE]

BuildRequest_key_only(o, url, key, p) ==
    [verb |-> RequestOf(o).verb, url |-> url,
     query |-> IF RequestOf(o).query THEN ParamsQuery(o, p) ELSE <<>>,
     bearer |-> IF RequestOf(o).bearer THEN Some(key) ELSE None]

\* RequestBuilder: verb(url), query(&params), bearer_auth(key).
BuildRequest(o, url, key, p) ==
    [verb |-> RequestOf(o).verb, url |-> url,
     query |-> IF RequestOf(o).query THEN ParamsQuery(o, p) ELSE <<>>,
     bearer |-> IF ~RequestOf(o).bearer THEN None
                ELSE IF o = "query" /\ p.token.some THEN p.token
                ELSE Some(key)]

(***************************************************************************)
(* The server side of a list endpoint: an ordered dataset of item ids      *)
(* served in pages; a cursor is the id of the item at the edge of a page,  *)
(* null when there is no further page in that direction.                   *)
(***************************************************************************)
MaxItems == 5
MaxLimit == 2
ServerDefaultLimit == 2
MaxRequests == 2 * MaxItems + 2

ItemId(i) == ToString(i)
Datasets == {[i \in 1..n |-> ItemId(i)] : n \in 0..MaxItems}
Limits == {NoLimit} \cup {Limit(n) : n \in 1..MaxLimit}

Min(a, b) == IF a <= b THEN a ELSE b
Max(a, b) == IF a >= b THEN a ELSE b
HasParam(q, key) == \E i \in 1..Len(q) : q[i][1] = key
Param(q, key) == q[CHOOSE i \in 1..Len(q) : q[i][1] = key][2]
IndexOf(ds, id) == IF \E i \in 1..Len(ds) : ds[i] = id THEN CHOOSE i \in 1..Len(ds) : ds[i] = id ELSE 0

\* The wire shape of one item of each list endpoint.
ItemJson(o, id) ==
    CASE o = "list_policies" ->
           JObj(<< <<"name", JStr(id)>>, <<"language", JStr("expr")>>,
                   <<"parameters", JArr(<<>>)>>, <<"expression", JStr("true")>> >>)
      [] o = "list_resources" ->
           JObj(<< <<"resource_type", JStr("document")>>, <<"resource_id", JStr(id)>> >>)
      [] o = "list_warrants" ->
           JObj(<< <<"resource_type", JStr("document")>>, <<"resource_id", JStr(id)>>,
                   <<"relation", JStr("viewer")>>,
                   <<"subject", JObj(<< <<"resource_type", JStr("user")>>,
                                        <<"resource_id", JStr("user_123")>> >>)>> >>)
      [] o \in {"list_resource_types", "apply_resource_types"} ->
           JObj(<< <<"type", JStr(id)>>, <<"relations", JObj(<<>>)>> >>)
      [] o = "batch_check" ->
           JObj(<< <<"subject", JStr(id)>>, <<"relation", JStr("viewer")>>,
                   <<"resource", JStr("document:doc_123")>>,
                   <<"allowed", JBool(id = ItemId(1))>> >>)
      [] o = "list_organization_memberships" ->
           JObj(<< <<"id", JStr(id)>>, <<"status", JStr("active")>> >>)
      [] o = "query" ->
           JObj(<< <<"resource_type", JStr("document")>>, <<"resource_id", JStr(id)>>,
                   <<"relation", JStr("viewer")>>,
                   <<"warrant",
                     JObj(<< <<"resource_type", JStr("document")>>, <<"resource_id", JStr(id)>>,
                             <<"relation", JStr("viewer")>>,
                             <<"subject", JObj(<< <<"resource_type", JStr("user")>>,
                                                  <<"resource_id", JStr("user_123")>> >>)>> >>)>>,
                   <<"is_implicit", JBool(FALSE)>> >>)

\* A cursor is a handle on the server-assigned order, not an offset: it
\* selects the items ordered after (before) the item it names, whether or not
\* that item is still in the dataset.
Rank(id) == CHOOSE i \in 1..MaxItems : ItemId(i) = id
CountUpTo(ds, id) == Cardinality({i \in 1..Len(ds) : Rank(ds[i]) <= Rank(id)})
CountBelow(ds, id) == Cardinality({i \in 1..Len(ds) : Rank(ds[i]) < Rank(id)})

PageLimit(q) == IF HasParam(q, "limit") THEN Param(q, "limit") ELSE ServerDefaultLimit
PageLo(ds, q) ==
    IF HasParam(q, "after") THEN CountUpTo(ds, Param(q, "after")) + 1
    ELSE IF HasParam(q, "before")
         THEN Max(CountBelow(ds, Param(q, "before")) - PageLimit(q) + 1, 1)
    ELSE 1
PageHi(ds, q) ==
    IF HasParam(q, "after") THEN Min(CountUpTo(ds, Param(q, "after")) + PageLimit(q), Len(ds))
    ELSE IF HasParam(q, "before") THEN CountBelow(ds, Param(q, "before"))
    ELSE Min(PageLimit(q), Len(ds))
PageJson(o, ds, q) ==
    LET lo == PageLo(ds, q)
        hi == PageHi(ds, q)
    IN  JObj(<< <<"data", JArr([i \in 1..(hi - lo + 1) |-> ItemJson(o, ds[lo + i - 1])])>>,
                <<"list_metadata",
                  JObj(<< <<"before", IF lo <= hi /\ lo > 1 THEN JStr(ds[lo]) ELSE JNull>>,
                          <<"after", IF lo <= hi /\ hi < Len(ds) THEN JStr(ds[hi]) ELSE JNull>> >>)>> >>)

(***************************************************************************)
(* The responses a server or an intermediary can send.                     *)
(***************************************************************************)
Statuses == {200, 202, 204, 304, 400, 401, 404, 500}
DeviceFlowErrors == {"authorization_pending", "slow_down", "access_denied", "expired_token"}
UnauthorizedErrors == {"invalid_client", "unauthorized_client"}
ErrorCodes == DeviceFlowErrors \cup UnauthorizedErrors \cup {"invalid_grant", "invalid_request"}
Descriptions == {"Invalid client ID.", "The code has expired or is invalid."}
MaxTruncation == 3

ErrorJson(e, d) == JObj(<< <<"error", JStr(e)>>, <<"error_description", d>> >>)
ErrorValues ==
    {ErrorJson(e, JStr(d)) : e \in ErrorCodes, d \in Descriptions}
    \cup {ErrorJson(e, JNull) : e \in ErrorCodes}
    \cup {JObj(<< <<"error", JStr(e)>> >>) : e \in ErrorCodes}
    \cup {JObj(<< <<"message", JStr("Not found")>> >>), JStr("oops"), JObj(<<>>)}
\* A resource as the tests of the resource operations describe it, and a
\* page of two of them.
TypeIdResource(id) ==
    JObj(<< <<"type", JStr("document")>>, <<"id", JStr(id)>>, <<"metadata", JObj(<<>>)>> >>)
TypeIdResourcePage ==
    JObj(<< <<"data", JArr(<<TypeIdResource("doc_abc"), TypeIdResource("doc_def")>>)>>,
            <<"list_metadata", JObj(<< <<"before", JNull>>, <<"after", JNull>> >>)>> >>)

\* The answers of the operations that return a sequence, with the items in
\* an order that is not sorted and holds one item twice.
SequenceOps == ListOps \cup {"query", "batch_check", "apply_resource_types"}
VecOps == {"batch_check", "apply_resource_types"}
SequenceJson(o, ids) ==
    LET items == JArr([i \in 1..Len(ids) |-> ItemJson(o, ids[i])])
    IN  IF o \in VecOps THEN items
        ELSE JObj(<< <<"data", items>>,
                     <<"list_metadata", JObj(<< <<"before", JNull>>, <<"after", JNull>> >>)>> >>)
UnsortedIds == <<ItemId(2), ItemId(1), ItemId(2)>>

SuccessValues ==
    {JObj(<< <<"resource_type", JStr("document")>>, <<"resource_id", JStr("doc_123")>> >>),
     JObj(<< <<"type", JStr("document")>>, <<"id", JStr("doc_123")>> >>),
     JObj(<< <<"resource_type", JStr("document")>> >>),
     ItemJson("list_policies", "policy_1"),
     JObj(<< <<"allowed", JBool(TRUE)>> >>),
     JObj(<< <<"allowed", JBool(FALSE)>> >>),
     JObj(<< <<"allowed", JStr("yes")>> >>),
     JObj(<< <<"user", JObj(<< <<"id", JStr("user_01")>> >>)>>,
             <<"access_token", JStr("at")>>, <<"refresh_token", JStr("rt")>> >>),
     JObj(<< <<"user", JObj(<< <<"id", JStr("user_01")>> >>)>>, <<"access_token", JStr("at")>> >>)}
    \cup {PageJson(o, [i \in 1..2 |-> ItemId(i)], <<>>) : o \in ListOps}
    \cup {PageJson("list_warrants", <<ItemId(1)>>, <<>>), PageJson("query", <<ItemId(1)>>, <<>>)}
    \cup {TypeIdResource("doc_123"), TypeIdResourcePage}
    \cup {SequenceJson(o, UnsortedIds) : o \in SequenceOps}
    \cup {PageJson("list_policies", <<>>, <<>>), JObj(<< <<"data", JArr(<<>>)>> >>)}
JsonValues == ErrorValues \cup SuccessValues
JsonBodies == {Serialise(v) : v \in JsonValues}
TruncatedBodies ==
    {SubSeq(b, 1, Min(n, Len(b) - 1)) : b \in {c \in JsonBodies : Len(c) > 1}, n \in 1..MaxTruncation}
TextBodies ==
    {<<>>, <<WordTok("Internal"), WordTok("Server"), WordTok("Error")>>,
     <<BadByte>>, <<WordTok("Bad"), BadByte, WordTok("Gateway")>>}
Bodies == JsonBodies \cup TruncatedBodies \cup TextBodies

(***************************************************************************)
(* State.  The client (baseUrl, apiKey) is fixed at construction.  One     *)
(* operation invocation: pc, op, request, response, result, reads (the     *)
(* reads of the response body, in order), sent (requests sent by this      *)
(* invocation).  dataset is the server's list; trav is the caller's cursor *)
(* traversal over a list operation.  calls holds the invocations that are  *)
(* in flight at once on the one client, each with its own pc, op, request, *)
(* response and result.                                                    *)
(***************************************************************************)
VARIABLES baseUrl, apiKey, pc, op, request, response, result, reads, sent, dataset, trav, calls, params, memo
vars == <<baseUrl, apiKey, pc, op, request, response, result, reads, sent, dataset, trav, calls, params, memo>>
client == <<baseUrl, apiKey>>

\* params: the parameters of a request the caller repeats.  churned: the ids inserted into or deleted from the dataset since the
\* traversal started.
MaxInFlight == 2
Procs == 1..MaxInFlight
NoCall == [pc |-> "idle", op |-> "none", request |-> NoRequest, response |-> NoResponse,
           result |-> NoResult]
NoCalls == [i \in Procs |-> NoCall]

NoTraversal ==
    [phase |-> "idle", limit |-> NoLimit, fwd |-> <<>>, bwd |-> <<>>, fwdReqs |-> 0, bwdReqs |-> 0,
     churned |-> {}, params |-> DefaultPagination]

Init ==
    /\ baseUrl \in BaseUrls
    /\ apiKey = ApiKey
    /\ pc = "idle"
    /\ op = "none"
    /\ request = NoRequest
    /\ response = NoResponse
    /\ result = NoResult
    /\ reads = <<>>
    /\ sent = 0
    /\ dataset = <<>>
    /\ trav = NoTraversal
    /\ calls = NoCalls
    /\ params = NoParams
    /\ memo = NoMemo

\* An operation up to its first await: build the URL (`?`), build the
\* request and send it.
Issue(o, p) ==
    /\ op' = o
    /\ params' = ParamsOf(o, p)
    /\ response' = NoResponse
    /\ reads' = <<>>
    /\ LET u == JoinUrl(baseUrl, RequestOf(o).path)
       IN  IF u.ok
           THEN /\ request' = BuildRequest(o, u.url, apiKey, ParamsOf(o, p))
                /\ sent' = 1
                /\ result' = NoResult
                /\ pc' = "sent"
           ELSE /\ request' = NoRequest
                /\ sent' = 0
                /\ result' = UrlParseError
                /\ pc' = "done"
    /\ UNCHANGED <<client, calls, memo, dataset>>

PaginationInputs(o) ==
    IF o \in ListOps
    THEN {DefaultPagination, PaginationParams(Limit(1), None, Some(ItemId(1))),
          PaginationParams(NoLimit, Some(ItemId(2)), None)}
    ELSE {DefaultPagination}

Call(o, p) ==
    /\ pc = "idle"
    /\ trav.phase = "idle"
    /\ Issue(o, p)
    /\ UNCHANGED trav

\* The parameters a caller passes besides the pagination alone.
ParamsInputs(o) ==
    CASE o = "list_warrants" ->
           {ListWarrantsParams(DefaultPagination, None, None, Some("viewer"), Some("document"), None),
            ListWarrantsParams(DefaultPagination, Some("user"), Some("user_123"), None, None, None),
            ListWarrantsParams(PaginationParams(Limit(1), None, Some(ItemId(1))),
                               None, None, None, Some("document"), Some("doc_123"))}
      [] o = "list_organization_memberships" ->
           {ListOrganizationMembershipsParams(pg, f, st) :
              pg \in {DefaultPagination, PaginationParams(Limit(1), None, Some(ItemId(1)))},
              f \in {User(DefaultUser), Organization(DefaultOrganization)},
              st \in {None, StatusFilters("active,pending")}}
      [] o = "query" -> {QueryArgs(Some("token_1"), DefaultPagination)}
      [] OTHER -> {}

\* The exchange completes with a response.
Respond(status, body) ==
    /\ pc = "sent"
    /\ trav.phase = "idle"
    /\ response' = [status |-> status, body |-> body]
    /\ pc' = "responded"
    /\ UNCHANGED <<client, calls, params, memo, op, request, result, reads, sent, dataset, trav>>

\* send().await? fails: no response arrives.
TransportFail ==
    /\ pc = "sent"
    /\ trav.phase = "idle"
    /\ result' = RequestError("transport")
    /\ pc' = "done"
    /\ UNCHANGED <<client, calls, params, memo, op, request, response, reads, sent, dataset, trav>>

\* Mutant: the outcome depends on the history: once a call made on another
\* client has been answered, an error answer is reported as Unauthorized.
Finish_per_client ==
    /\ pc = "responded"
    /\ \E r \in {Run(op, response)} :
          /\ result' = IF memo.set /\ memo.key # apiKey /\ r.result.kind = "Unknown"
                        THEN Unauthorized ELSE r.result
          /\ reads' = r.reads
    /\ pc' = "done"
    /\ UNCHANGED <<client, calls, params, memo, op, request, response, sent, dataset, trav>>

\* Mutant: an answer that invites another attempt (a server error, a pending
\* or slow-down device-code answer) is retried inside the operation.
Finish_retry ==
    /\ pc = "responded"
    /\ \E r \in {Run(op, response)} :
          IF \/ (r.result.kind = "Unknown" /\ r.result.status >= 500)
             \/ (r.result.kind = "Operation" /\ r.result.error.k \in {"AuthorizationPending", "SlowDown"})
          THEN /\ pc' = "sent"
               /\ sent' = sent + 1
               /\ UNCHANGED <<result, reads>>
          ELSE /\ result' = r.result
               /\ reads' = r.reads
               /\ pc' = "done"
               /\ sent' = sent
    /\ UNCHANGED <<client, calls, params, memo, op, request, response, dataset, trav>>

\* The operation resumes with the response and runs to its return.
Finish ==
    /\ pc = "responded"
    /\ \E r \in {Run(op, response)} :
          /\ result' = r.result
          /\ reads' = r.reads
    /\ pc' = "done"
    /\ UNCHANGED <<client, calls, params, memo, op, request, response, sent, dataset, trav>>

\* The caller takes the result.
Return ==
    /\ pc = "done"
    /\ trav.phase = "idle"
    /\ pc' = "idle"
    /\ op' = "none"
    /\ request' = NoRequest
    /\ response' = NoResponse
    /\ result' = NoResult
    /\ reads' = <<>>
    /\ sent' = 0
    /\ UNCHANGED <<client, calls, params, memo, dataset, trav>>

Next ==
    \/ \E o \in Operations : \E p \in PaginationInputs(o) \cup ParamsInputs(o) : Call(o, p)
    \/ \E status \in Statuses : \E body \in Bodies : Respond(status, body)
    \/ TransportFail
    \/ Finish
    \/ Return

Spec == Init /\ [][Next]_vars

(***************************************************************************)
(* Cursor traversal: a caller drives a list operation page by page,        *)
(* forward with `after` to the last page, then backward with `before`.     *)
(***************************************************************************)
InitTraverse ==
    /\ baseUrl = GoodBase
    /\ apiKey = ApiKey
    /\ pc = "idle"
    /\ op = "none"
    /\ request = NoRequest
    /\ response = NoResponse
    /\ result = NoResult
    /\ reads = <<>>
    /\ sent = 0
    /\ dataset \in Datasets
    /\ trav = NoTraversal
    /\ calls = NoCalls
    /\ params = NoParams
    /\ memo = NoMemo

\* The caller requests the first page.
Start(o, l) ==
    /\ pc = "idle"
    /\ trav.phase = "idle"
    /\ Issue(o, PaginationParams(l, None, None))
    /\ trav' = [NoTraversal EXCEPT !.phase = "fwd", !.limit = l, !.fwdReqs = 1]

\* The server answers a list request with the page its query selects.
ServePage ==
    /\ pc = "sent"
    /\ response' = [status |-> 200, body |-> Serialise(PageJson(op, dataset, request.query))]
    /\ pc' = "responded"
    /\ UNCHANGED <<client, calls, params, memo, op, request, result, reads, sent, dataset, trav>>

\* The server answers with an error instead.
ServeError(status) ==
    /\ pc = "sent"
    /\ response' = [status |-> status, body |-> <<>>]
    /\ pc' = "responded"
    /\ UNCHANGED <<client, calls, params, memo, op, request, result, reads, sent, dataset, trav>>

\* The caller takes a page: it stops on an error or an absent cursor, else
\* it reissues the operation with the cursor of the page.
Advance ==
    /\ pc = "done"
    /\ trav.phase \in {"fwd", "bwd"}
    /\ IF result.kind # "Ok"
       THEN /\ trav' = [trav EXCEPT !.phase = "failed"]
            /\ pc' = "idle"
            /\ UNCHANGED <<client, calls, params, memo, op, request, response, result, reads, sent, dataset>>
       ELSE LET list == result.value
                fwd == trav.phase = "fwd"
                cursor == IF fwd THEN list.list_metadata.after ELSE list.list_metadata.before
                seen == IF fwd THEN [trav EXCEPT !.fwd = Append(@, list)]
                        ELSE [trav EXCEPT !.bwd = Append(@, list)]
            IN  IF ~cursor.some
                THEN /\ trav' = [seen EXCEPT !.phase = IF fwd THEN "end" ELSE "stopped"]
                     /\ pc' = "idle"
                     /\ UNCHANGED <<client, calls, params, memo, op, request, response, result, reads, sent, dataset>>
                ELSE /\ trav.fwdReqs + trav.bwdReqs < MaxRequests
                     /\ Issue(op, PaginationParams(trav.limit, IF fwd THEN None ELSE cursor,
                                                   IF fwd THEN cursor ELSE None))
                     /\ trav' = IF fwd THEN [seen EXCEPT !.fwdReqs = @ + 1]
                                ELSE [seen EXCEPT !.bwdReqs = @ + 1]

\* At the last page the caller turns to walk backward.
TurnBack ==
    /\ pc = "idle"
    /\ trav.phase = "end"
    /\ LET cursor == trav.fwd[Len(trav.fwd)].list_metadata.before
       IN  IF ~cursor.some
           THEN /\ trav' = [trav EXCEPT !.phase = "stopped"]
                /\ UNCHANGED <<client, calls, params, memo, pc, op, request, response, result, reads, sent, dataset>>
           ELSE /\ trav.fwdReqs + trav.bwdReqs < MaxRequests
                /\ Issue(op, PaginationParams(trav.limit, cursor, None))
                /\ trav' = [trav EXCEPT !.phase = "bwd", !.bwdReqs = 1]

NextTraverse ==
    \/ \E o \in ListOps : \E l \in Limits : Start(o, l)
    \/ ServePage
    \/ \E status \in {401, 500} : ServeError(status)
    \/ Finish
    \/ Advance
    \/ TurnBack

SpecTraverse == InitTraverse /\ [][NextTraverse]_vars

\* The caller's loop runs, the server answers, the operation resumes.
SpecTraverseFair == SpecTraverse /\ WF_vars(NextTraverse)

(***************************************************************************)
(* Forward traversal while the dataset changes: between the caller's       *)
(* requests items are inserted into and deleted from the server's dataset, *)
(* which stays in server-assigned order.                                   *)
(***************************************************************************)
MaxChurn == 2
ChurnItems == 4

\* The datasets in server-assigned order: the subsequences of the ids.
RECURSIVE SortedSeq(_)
SortedSeq(S) ==
    IF S = {} THEN <<>>
    ELSE LET m == CHOOSE i \in S : \A j \in S : i <= j
         IN  <<ItemId(m)>> \o SortedSeq(S \ {m})
OrderedDatasets == {SortedSeq(S) : S \in SUBSET (1..ChurnItems)}
Ids(ds) == {ds[i] : i \in 1..Len(ds)}
Ranks(ds) == {Rank(ds[i]) : i \in 1..Len(ds)}

InitChurn ==
    /\ baseUrl = GoodBase
    /\ apiKey = ApiKey
    /\ pc = "idle"
    /\ op = "none"
    /\ request = NoRequest
    /\ response = NoResponse
    /\ result = NoResult
    /\ reads = <<>>
    /\ sent = 0
    /\ dataset \in OrderedDatasets
    /\ trav = NoTraversal
    /\ calls = NoCalls
    /\ params = NoParams
    /\ memo = NoMemo

Insert(i) ==
    /\ trav.phase = "fwd"
    /\ ItemId(i) \notin Ids(dataset)
    /\ Cardinality(trav.churned \cup {ItemId(i)}) <= MaxChurn
    /\ dataset' = SortedSeq(Ranks(dataset) \cup {i})
    /\ trav' = [trav EXCEPT !.churned = @ \cup {ItemId(i)}]
    /\ UNCHANGED <<client, calls, params, memo, pc, op, request, response, result, reads, sent>>

Delete(i) ==
    /\ trav.phase = "fwd"
    /\ ItemId(i) \in Ids(dataset)
    /\ Cardinality(trav.churned \cup {ItemId(i)}) <= MaxChurn
    /\ dataset' = SortedSeq(Ranks(dataset) \ {i})
    /\ trav' = [trav EXCEPT !.churned = @ \cup {ItemId(i)}]
    /\ UNCHANGED <<client, calls, params, memo, pc, op, request, response, result, reads, sent>>

NextChurn ==
    \/ \E o \in ListOps : \E l \in Limits : Start(o, l)
    \/ ServePage
    \/ Finish
    \/ Advance
    \/ \E i \in 1..ChurnItems : Insert(i)
    \/ \E i \in 1..ChurnItems : Delete(i)

SpecChurn == InitChurn /\ [][NextChurn]_vars

(***************************************************************************)
(* A caller repeats one list request, with the same parameters, against a  *)
(* dataset that does not change.                                           *)
(***************************************************************************)
MaxRepeats == 2

Cursors(ds) == {None} \cup {Some(ds[i]) : i \in 1..Len(ds)}
RepeatInputs(ds) ==
    {PaginationParams(l, b, a) : l \in Limits, b \in Cursors(ds), a \in Cursors(ds)}

Ask(o, p) ==
    /\ pc = "idle"
    /\ trav.phase = "idle"
    /\ ~(p.before.some /\ p.after.some)
    /\ Issue(o, p)
    /\ trav' = [NoTraversal EXCEPT !.phase = "repeat", !.params = p, !.fwdReqs = 1]

\* The caller keeps the list it received and calls the operation again.
Again ==
    /\ pc = "done"
    /\ trav.phase = "repeat"
    /\ result.kind = "Ok"
    /\ Len(trav.fwd) < MaxRepeats
    /\ Issue(op, trav.params)
    /\ trav' = [trav EXCEPT !.fwd = Append(@, result.value), !.fwdReqs = @ + 1]

NextRepeat ==
    \/ \E o \in ListOps : \E p \in RepeatInputs(dataset) : Ask(o, p)
    \/ ServePage
    \/ Finish
    \/ Again

SpecRepeat == InitTraverse /\ [][NextRepeat]_vars

(***************************************************************************)
(* Several invocations in flight at once on one client.  Each holds a      *)
(* shared reference to the client and its own request and response; the    *)
(* steps of different invocations interleave freely.                       *)
(***************************************************************************)
ConcurrentOps == {"get_policy", "delete_policy", "authenticate_with_device_code"}
ConcurrentStatuses == {200, 400, 401}
ConcurrentBodies ==
    {<<>>, Serialise(ItemJson("list_policies", "policy_1")),
     Serialise(ErrorJson("slow_down", JStr("Invalid client ID.")))}

InitConcurrent ==
    /\ baseUrl \in BaseUrls
    /\ apiKey = ApiKey
    /\ pc = "idle"
    /\ op = "none"
    /\ request = NoRequest
    /\ response = NoResponse
    /\ result = NoResult
    /\ reads = <<>>
    /\ sent = 0
    /\ dataset = <<>>
    /\ trav = NoTraversal
    /\ calls = NoCalls
    /\ params = NoParams
    /\ memo = NoMemo

single == <<pc, op, request, response, result, reads, sent, dataset, trav, params, memo>>

\* Invocation i runs up to its first await.
Invoke(i, o) ==
    /\ calls[i].pc = "idle"
    /\ LET u == JoinUrl(baseUrl, RequestOf(o).path)
       IN  calls' = [calls EXCEPT ![i] =
                IF u.ok
                THEN [NoCall EXCEPT !.pc = "sent", !.op = o,
                                    !.request = BuildRequest(o, u.url, apiKey, ParamsOf(o, DefaultPagination))]
                ELSE [NoCall EXCEPT !.pc = "done", !.op = o, !.result = UrlParseError]]
    /\ UNCHANGED <<client, single>>

\* The response to invocation i arrives.
Arrive(i, status, body) ==
    /\ calls[i].pc = "sent"
    /\ calls' = [calls EXCEPT ![i].response = [status |-> status, body |-> body],
                              ![i].pc = "responded"]
    /\ UNCHANGED <<client, single>>

\* Mutant: the response is kept in a slot that the invocations share.
Resume_shared(i) ==
    /\ calls[i].pc = "responded"
    /\ \E j \in Procs :
          /\ calls[j].response # NoResponse
          /\ \E r \in {Run(calls[i].op, calls[j].response)} :
                calls' = [calls EXCEPT ![i].result = r.result, ![i].pc = "done"]
    /\ UNCHANGED <<client, single>>

\* Invocation i resumes with its response and runs to its return.
Resume(i) ==
    /\ calls[i].pc = "responded"
    /\ \E r \in {Run(calls[i].op, calls[i].response)} :
          calls' = [calls EXCEPT ![i].result = r.result, ![i].pc = "done"]
    /\ UNCHANGED <<client, single>>

\* The caller takes the result of invocation i.
Take(i) ==
    /\ calls[i].pc = "done"
    /\ calls' = [calls EXCEPT ![i] = NoCall]
    /\ UNCHANGED <<client, single>>

NextConcurrent ==
    \/ \E i \in Procs : \E o \in ConcurrentOps : Invoke(i, o)
    \/ \E i \in Procs : \E status \in ConcurrentStatuses : \E body \in ConcurrentBodies :
          Arrive(i, status, body)
    \/ \E i \in Procs : Resume(i)
    \/ \E i \in Procs : Take(i)

SpecConcurrent == InitConcurrent /\ [][NextConcurrent]_vars

(***************************************************************************)
(* Properties.                                                             *)
(***************************************************************************)
(***************************************************************************)
(* Classification over histories: calls made one after another, on one     *)
(* client or another, with the outcome of an earlier call kept for         *)
(* comparison in memo.                                                     *)
(***************************************************************************)
ApiKeys == {ApiKey, "sk_example_987654321"}
ClassifyOps == {"get_policy", "delete_policy", "check", "list_warrants"}
ClassifyStatuses == {200, 401, 404, 500}
ClassifyBodies ==
    {<<>>, <<WordTok("Internal"), WordTok("Server"), WordTok("Error")>>, <<BadByte>>,
     Serialise(JObj(<< <<"message", JStr("Not found")>> >>)),
     Serialise(ErrorJson("invalid_grant", JNull)),
     Serialise(ItemJson("list_policies", "policy_1")),
     <<LBrace, StrTok("message"), Colon>>}

InitClassify ==
    /\ baseUrl = GoodBase
    /\ apiKey \in ApiKeys
    /\ pc = "idle"
    /\ op = "none"
    /\ request = NoRequest
    /\ response = NoResponse
    /\ result = NoResult
    /\ reads = <<>>
    /\ sent = 0
    /\ dataset = <<>>
    /\ trav = NoTraversal
    /\ calls = NoCalls
    /\ params = NoParams
    /\ memo = NoMemo

\* The outcome of a completed call is kept, with the response it came from.
Remember ==
    /\ pc = "done"
    /\ response # NoResponse
    /\ memo' = [set |-> TRUE, op |-> op, status |-> response.status, body |-> response.body,
                result |-> result, key |-> apiKey]
    /\ UNCHANGED <<client, calls, params, pc, op, request, response, result, reads, sent,
                   dataset, trav>>

\* The next call is made on another client.
OtherClient ==
    /\ pc = "idle"
    /\ apiKey' \in ApiKeys \ {apiKey}
    /\ UNCHANGED <<baseUrl, calls, params, memo, pc, op, request, response, result, reads,
                   sent, dataset, trav>>

NextClassify ==
    \/ \E o \in ClassifyOps : Call(o, DefaultPagination)
    \/ \E status \in ClassifyStatuses : \E body \in ClassifyBodies : Respond(status, body)
    \/ Finish
    \/ Return
    \/ Remember
    \/ OtherClient

SpecClassify == InitClassify /\ [][NextClassify]_vars

(***************************************************************************)
(* Decoding of the values that hold KnownOrUnknown fields: a body is       *)
(* decoded as a value of one of the types.                                 *)
(***************************************************************************)
DecodeTypes == {"Verification", "DirectoryUser", "OrganizationMembership"}
AllVariants ==
    VerificationType \cup VerificationStatus \cup DirectoryUserState
    \cup OrganizationMembershipStatus
EnumStrings ==
    {SnakeCase(v) : v \in AllVariants}
    \cup {"EmailVerification", "SUCCEEDED", "unknown_verification_type", "unknown_status",
          "provisioned", ""}
EnumValues == {JStr(e) : e \in EnumStrings} \cup {JNull, JBool(TRUE)}

VerificationJson(type, status, ip) ==
    JObj(<< <<"type", type>>, <<"status", status>>,
            <<"user_id", JStr("user_01E4ZCR3C5A4QZ2Z2JQXGKZJ9E")>>,
            <<"email", JStr("todd@example.com")>>, <<"phone_number", JNull>>,
            <<"ip_address", ip>>, <<"user_agent", JStr("Mozilla/5.0")>> >>)
DirectoryUserJson(state, emails) ==
    JObj(<< <<"id", JStr("directory_user_01E1JG7J09H96KYP8HM9B0G5SJ")>>,
            <<"idp_id", JStr("2836")>>,
            <<"directory_id", JStr("directory_01ECAZ4NV9QMV47GW873HDCX74")>>,
            <<"organization_id", JNull>>, <<"emails", emails>>, <<"groups", JArr(<<>>)>>,
            <<"state", state>>, <<"custom_attributes", JObj(<<>>)>>,
            <<"role", JObj(<< <<"slug", JStr("member")>> >>)>>,
            <<"created_at", JStr("2021-06-25T19:07:33.155Z")>>,
            <<"updated_at", JStr("2021-06-25T19:07:33.155Z")>> >>)
OrganizationMembershipJson(id, status) ==
    JObj(<< <<"object", JStr("organization_membership")>>, <<"id", id>>,
            <<"status", status>> >>)
DecodeInputs(T) ==
    CASE T = "Verification" ->
           {VerificationJson(t, st, ip) :
              t \in EnumValues, st \in EnumValues, ip \in {JStr("192.0.2.1"), JNull}}
      [] T = "DirectoryUser" ->
           {DirectoryUserJson(st, e) : st \in EnumValues, e \in {JArr(<<>>), JNull}}
      [] T = "OrganizationMembership" ->
           {OrganizationMembershipJson(id, st) :
              id \in {JStr("om_01E4ZCR3C56J083X43JQXF3JK5"), JNull}, st \in EnumValues}

\* Relation rules: any choice of the three keys, each well formed or not,
\* in either order of the keys.
ThisRule == JObj(<< <<"this", JObj(<<>>)>> >>)
InheritJson(relation, from) == JObj(<< <<"relation", relation>>, <<"from", from>> >>)
InheritRuleJson == JObj(<< <<"inherit", InheritJson(JStr("viewer"), JStr("parent"))>> >>)
Absent == [k |-> "absent"]
ThisValues == {Absent, JObj(<<>>), JNull}
InheritValues ==
    {Absent, InheritJson(JStr("owner"), JStr("parent")),
     JObj(<< <<"relation", JStr("owner")>> >>), JStr("owner")}
UnionValues ==
    {Absent, JArr(<<>>), JArr(<<ThisRule, InheritRuleJson>>),
     JArr(<<JObj(<< <<"union", JArr(<<InheritRuleJson, ThisRule>>)>> >>)>>),
     JArr(<<ThisRule, JObj(<< <<"inherit", JStr("owner")>> >>)>>), JStr("owner")}
Member(key, v) == IF v = Absent THEN <<>> ELSE << <<key, v>> >>
RuleValues ==
    {JObj(Member("this", t) \o Member("inherit", i) \o Member("union", u)) :
       t \in ThisValues, i \in InheritValues, u \in UnionValues}
    \cup {JObj(Member("union", u) \o Member("inherit", i) \o Member("this", t)) :
            t \in ThisValues, i \in InheritValues, u \in UnionValues}
    \cup {JStr("this"), JNull}
ResourceTypeJson(rule) ==
    JObj(<< <<"type", JStr("document")>>, <<"relations", JObj(<< <<"viewer", rule>> >>)>> >>)
RuleInputs ==
    {ResourceTypeJson(r) : r \in RuleValues}
    \cup {JObj(<< <<"type", JStr("document")>> >>),
          JObj(<< <<"type", JStr("document")>>, <<"relations", JNull>> >>)}

\* json::<T>() / serde_json::from_str::<T>() on a body.
from_str(T, body) ==
    /\ pc = "idle"
    /\ trav.phase = "idle"
    /\ op' = T
    /\ response' = [status |-> 200, body |-> body]
    /\ \E r \in {ThenJson(Pass(<<>>), [status |-> 200, body |-> body], T)} :
          /\ result' = r.result
          /\ reads' = r.reads
    /\ pc' = "done"
    /\ UNCHANGED <<client, calls, params, memo, request, sent, dataset, trav>>

NextDecode ==
    \/ \E T \in DecodeTypes : \E j \in DecodeInputs(T) : from_str(T, Serialise(j))
    \/ \E j \in RuleInputs : from_str("ResourceType", Serialise(j))
    \/ Return

InitDecode == InitTraverse /\ dataset = <<>>

SpecDecode == InitDecode /\ [][NextDecode]_vars

(***************************************************************************)
(* Looking an organization up by its external id.  Strings are sequences   *)
(* of characters; a run of unreserved characters that is never split is    *)
(* one element.                                                            *)
(***************************************************************************)
MaxIdLen == 3
IdChars == {"a", ".", "/", "?", "#", " ", "%"}
ExternalIds == UNION {[1..n -> IdChars] : n \in 0..MaxIdLen}

\* The escapes of the characters that have one: %XX of the byte, upper case.
Escapes ==
    {<<"/", <<"%", "2", "F">> >>, <<"?", <<"%", "3", "F">> >>, <<"#", <<"%", "2", "3">> >>,
     <<" ", <<"%", "2", "0">> >>, <<"%", <<"%", "2", "5">> >>}
HasEscape(c) == \E e \in Escapes : e[1] = c
EscapeOf(c) == (CHOOSE e \in Escapes : e[1] = c)[2]

\* Mutant: the external id is put into the path as it is.
encode_nothing(str) == str

\* urlencoding::encode: every byte outside A-Z a-z 0-9 - _ . ~ becomes %XX.
RECURSIVE encode(_)
encode(str) ==
    IF str = <<>> THEN <<>>
    ELSE (IF HasEscape(Head(str)) THEN EscapeOf(Head(str)) ELSE <<Head(str)>>) \o encode(Tail(str))

\* percent_decode: %XX becomes the byte, anything else is kept.
RECURSIVE percent_decode(_)
percent_decode(str) ==
    IF str = <<>> THEN <<>>
    ELSE IF Len(str) >= 3 /\ \E e \in Escapes : e[2] = SubSeq(str, 1, 3)
         THEN <<(CHOOSE e \in Escapes : e[2] = SubSeq(str, 1, 3))[1]>>
                  \o percent_decode(SubSeq(str, 4, Len(str)))
         ELSE <<Head(str)>> \o percent_decode(Tail(str))

\* format!("/organizations/external_id/{external_id}")
ExternalIdPath(external_id) == <<"/", "organizations", "/", "external_id", "/">> \o external_id

\* The position of the first occurrence of c in str, Len(str) + 1 if none.
FirstIndexOf(str, c) ==
    IF \E i \in 1..Len(str) : str[i] = c
    THEN CHOOSE i \in 1..Len(str) : str[i] = c /\ \A j \in 1..(i - 1) : str[j] # c
    ELSE Len(str) + 1
After(str, i) == IF i > Len(str) THEN None ELSE [some |-> TRUE, v |-> SubSeq(str, i + 1, Len(str))]

\* The segments of an absolute path, split at each '/', a space written as
\* its escape.
RECURSIVE SplitPath(_, _)
SplitPath(str, seg) ==
    IF str = <<>> THEN <<seg>>
    ELSE IF Head(str) = "/" THEN <<seg>> \o SplitPath(Tail(str), <<>>)
    ELSE SplitPath(Tail(str), seg \o (IF Head(str) = " " THEN EscapeOf(" ") ELSE <<Head(str)>>))

\* Dot segments: "." is dropped and ".." drops the segment before it; as the
\* last segment either leaves an empty segment in its place.
RECURSIVE RemoveDots(_, _)
RemoveDots(segs, out) ==
    IF segs = <<>> THEN out
    ELSE LET last == Len(segs) = 1
             shorter == IF out = <<>> THEN out ELSE SubSeq(out, 1, Len(out) - 1)
         IN  IF Head(segs) = <<".", ".">>
             THEN RemoveDots(Tail(segs), IF last THEN Append(shorter, <<>>) ELSE shorter)
             ELSE IF Head(segs) = <<".">>
             THEN RemoveDots(Tail(segs), IF last THEN Append(out, <<>>) ELSE out)
             ELSE RemoveDots(Tail(segs), Append(out, Head(segs)))

\* Url::join of a reference that starts with '/': the fragment is what
\* follows the first '#', the query what follows the first '?' before it,
\* the rest is the path.
ParseReference(ref) ==
    LET h == FirstIndexOf(ref, "#")
        beforeFragment == SubSeq(ref, 1, h - 1)
        q == FirstIndexOf(beforeFragment, "?")
        path == SubSeq(beforeFragment, 1, q - 1)
    IN  [path |-> RemoveDots(SplitPath(Tail(path), <<>>), <<>>),
         query |-> After(beforeFragment, q),
         fragment |-> After(ref, h)]
JoinReference(base, ref) == [ok |-> base # OpaqueBase, url |-> <<base, ParseReference(ref)>>]

OrganizationJson ==
    JObj(<< <<"id", JStr("org_1")>>, <<"object", JStr("organization")>>,
            <<"name", JStr("Foo Corporation")>>,
            <<"allow_profiles_outside_organization", JBool(FALSE)>>,
            <<"created_at", JStr("2021-06-25T19:07:33.155Z")>>,
            <<"updated_at", JStr("2021-06-25T19:07:33.155Z")>>,
            <<"domains", JArr(<<>>)>> >>)
ExternalIdStatuses == {200, 404}
ExternalIdBodies == {Serialise(OrganizationJson), <<>>}

\* get_organization_by_external_id up to its first await.
IssueByExternalId(external_id) ==
    /\ pc = "idle"
    /\ trav.phase = "idle"
    /\ op' = "get_organization_by_external_id"
    /\ params' = [external_id |-> external_id]
    /\ response' = NoResponse
    /\ reads' = <<>>
    /\ \E u \in {JoinReference(baseUrl, ExternalIdPath(encode(external_id)))} :
          IF u.ok
          THEN /\ request' = [verb |-> "GET", url |-> u.url, query |-> <<>>,
                              bearer |-> Some(apiKey)]
               /\ sent' = 1
               /\ result' = NoResult
               /\ pc' = "sent"
          ELSE /\ request' = NoRequest
               /\ sent' = 0
               /\ result' = UrlParseError
               /\ pc' = "done"
    /\ UNCHANGED <<client, calls, memo, dataset, trav>>

NextExternalId ==
    \/ \E external_id \in ExternalIds : IssueByExternalId(external_id)
    \/ \E status \in ExternalIdStatuses : \E body \in ExternalIdBodies : Respond(status, body)
    \/ TransportFail
    \/ Finish

SpecExternalId == Init /\ [][NextExternalId]_vars

Done == pc = "done"
Responded == Done /\ response # NoResponse
BodyIsJson == ParseJson(response.body).ok
OtherErrorStatus == IsErrorStatus(response.status) /\ response.status # UNAUTHORIZED

\* C1: an operation routed through handle_unauthorized_or_generic_error turns
\* a 401 response into Unauthorized whatever the body, and makes no read of
\* the body.
C1_UnauthorizedWhateverBody ==
    (Responded /\ op \in GenericOps /\ response.status = 401)
        => (result = Unauthorized /\ reads = <<>>)

C1_Witness ==
    /\ Responded /\ op \in GenericOps /\ response.status = 401
    /\ ~BodyIsJson /\ response.body # <<>>
    /\ result = Unauthorized

\* C2 as stated: every operation turns a non-401 error response with a JSON
\* body into Unknown with the status and the parsed body.
C2_Original ==
    (Responded /\ OtherErrorStatus /\ BodyIsJson)
        => result = Unknown(response.status, Json(ParseJson(response.body).v))

\* C2, amended: every operation routed through the generic classifier turns a
\* non-401 error response with a JSON body into Unknown{status, Json(v)}, with
\* the response's status and v the parsed body (v serialises back to the body).
C2_UnknownJson ==
    (Responded /\ op \in GenericOps /\ OtherErrorStatus /\ BodyIsJson)
        => /\ result = Unknown(response.status, Json(ParseJson(response.body).v))
           /\ Serialise(result.body.v) = response.body

C2_Witness ==
    /\ Responded /\ op \in GenericOps /\ response.status = 404 /\ BodyIsJson
    /\ result.kind = "Unknown" /\ result.body.k = "Json" /\ IsObj(result.body.v)

\* C3: a non-401 error response whose body is not JSON yields Unknown with the
\* status and the body as text (the body itself when it is valid UTF-8), never
\* a RequestError.
C3_UnknownText ==
    (Responded /\ OtherErrorStatus /\ ~BodyIsJson)
        => /\ result = Unknown(response.status, Text(TextOf(response.body)))
           /\ (\A i \in 1..Len(response.body) : response.body[i] # BadByte)
                 => result.body.t = response.body

C3_Witness ==
    /\ Responded /\ response.status = 500 /\ ~BodyIsJson
    /\ \E i \in 1..Len(response.body) : response.body[i] = BadByte
    /\ result.kind = "Unknown" /\ result.body.k = "Text"

DeviceCodeError400(e, d) ==
    /\ Responded /\ op = "authenticate_with_device_code" /\ response.status = 400
    /\ BodyIsJson
    /\ HasStr(ParseJson(response.body).v, "error")
    /\ Get(ParseJson(response.body).v, "error").s = e
    /\ HasStr(ParseJson(response.body).v, "error_description")
    /\ Get(ParseJson(response.body).v, "error_description").s = d

\* C6: authenticate_with_device_code turns a 400 whose body names one of the
\* four device-flow errors, with a description d, into Operation of the
\* variant of that name carrying d.
C6_DeviceFlowVariants ==
    \A d \in Descriptions :
        /\ DeviceCodeError400("authorization_pending", d)
             => result = Operation([k |-> "AuthorizationPending", error_description |-> d])
        /\ DeviceCodeError400("slow_down", d)
             => result = Operation([k |-> "SlowDown", error_description |-> d])
        /\ DeviceCodeError400("access_denied", d)
             => result = Operation([k |-> "AccessDenied", error_description |-> d])
        /\ DeviceCodeError400("expired_token", d)
             => result = Operation([k |-> "ExpiredToken", error_description |-> d])

C6_Witness ==
    /\ \E d \in Descriptions : DeviceCodeError400("slow_down", d)
    /\ result.kind = "Operation" /\ result.error.k = "SlowDown"

\* C7: authenticate_with_device_code turns a 400 whose body's error is
\* invalid_client or unauthorized_client into Unauthorized.
C7_UnauthorizedClient ==
    \A e \in UnauthorizedErrors : \A d \in Descriptions :
        DeviceCodeError400(e, d) => result = Unauthorized

C7_Witness ==
    /\ \E d \in Descriptions : DeviceCodeError400("unauthorized_client", d)
    /\ result = Unauthorized

\* C8: authenticate_with_device_code turns a 400 whose body's error is none of
\* the device-flow or unauthorized ones into
\* Operation(Authenticate(WithError(e))), e carrying the body's error and
\* error_description unchanged.
C8_AuthenticateFallback ==
    \A e \in ErrorCodes \ (DeviceFlowErrors \cup UnauthorizedErrors) : \A d \in Descriptions :
        DeviceCodeError400(e, d)
            => result = Operation([k |-> "Authenticate",
                                   e |-> [k |-> "WithError", error |-> e, error_description |-> d]])

C8_Witness ==
    /\ \E d \in Descriptions : DeviceCodeError400("invalid_grant", d)
    /\ result.kind = "Operation" /\ result.error.k = "Authenticate"
    /\ result.error.e.error = "invalid_grant"

\* The pages of the dataset for the traversal's limit, as sequences of ids.
TravLimit == IF trav.limit.some THEN trav.limit.v ELSE ServerDefaultLimit
NumPages == IF dataset = <<>> THEN 1 ELSE (Len(dataset) + TravLimit - 1) \div TravLimit
ExpectedPage(i) == SubSeq(dataset, (i - 1) * TravLimit + 1, Min(i * TravLimit, Len(dataset)))
ItemIdOf(item) ==
    CASE item.k = "Policy" -> item.name
      [] item.k \in {"Resource", "Warrant"} -> item.resource_id
      [] item.k = "ResourceType" -> item.type
      [] item.k = "OrganizationMembership" -> item.id
      [] item.k = "QueryResponse" -> item.resource.resource_id
      [] item.k = "CheckResult" -> item.subject
PageIds(list) == [i \in 1..Len(list.data) |-> ItemIdOf(list.data[i])]
LastOf(pages) == pages[Len(pages)]

\* C9: over a dataset of three pages A, B, C, the forward traversal receives
\* A, B, C in order, each request after the first carrying the previous
\* page's after cursor and no before; C has no after cursor and no fourth
\* request is issued; the backward traversal from C receives B and then A.
C9_RoundTrip ==
    (trav.phase # "idle" /\ NumPages = 3) =>
        /\ Len(trav.fwd) <= 3 /\ Len(trav.bwd) <= 2
        /\ \A i \in 1..Len(trav.fwd) : PageIds(trav.fwd[i]) = ExpectedPage(i)
        /\ \A i \in 1..Len(trav.bwd) : PageIds(trav.bwd[i]) = ExpectedPage(3 - i)
        /\ (trav.phase = "fwd" /\ pc = "sent" /\ trav.fwd # <<>>) =>
              /\ HasParam(request.query, "after") /\ ~HasParam(request.query, "before")
              /\ Some(Param(request.query, "after")) = LastOf(trav.fwd).list_metadata.after
        /\ (trav.phase = "bwd" /\ pc = "sent") =>
              /\ HasParam(request.query, "before") /\ ~HasParam(request.query, "after")
        /\ trav.phase \in {"end", "bwd", "stopped"} =>
              /\ Len(trav.fwd) = 3 /\ trav.fwdReqs = 3
              /\ ~trav.fwd[3].list_metadata.after.some
        /\ trav.phase = "stopped" => (Len(trav.bwd) = 2 /\ trav.bwdReqs = 2)

C9_Witness ==
    /\ NumPages = 3 /\ trav.phase = "stopped" /\ op = "list_policies"
    /\ Len(trav.fwd) = 3 /\ Len(trav.bwd) = 2 /\ Len(dataset) = 5

\* The traversal has stopped, having issued in each direction exactly one
\* request per page it received:
\* the forward walk one per page of the dataset, up to the page without an
\* after cursor, the backward walk one per earlier page, up to the page
\* without a before cursor.
TraversalStopped ==
    \/ trav.phase = "failed"
    \/ /\ trav.phase = "stopped" /\ pc = "idle"
       /\ trav.fwdReqs = NumPages /\ Len(trav.fwd) = NumPages
       /\ \A i \in 1..NumPages : PageIds(trav.fwd[i]) = ExpectedPage(i)
       /\ ~LastOf(trav.fwd).list_metadata.after.some
       /\ trav.bwdReqs = NumPages - 1 /\ Len(trav.bwd) = NumPages - 1
       /\ (trav.bwd # <<>> => ~LastOf(trav.bwd).list_metadata.before.some)

\* C10: every traversal, over any dataset and limit, eventually stops for
\* good: it failed on an error response, or it received every page with one
\* request per page and issued no request after a page without a cursor.
C10_Termination == <>[]TraversalStopped

C10_Witness ==
    /\ trav.phase = "stopped" /\ trav.limit = Limit(2) /\ NumPages >= 2
    /\ trav.fwdReqs = NumPages /\ trav.bwdReqs = NumPages - 1

\* The ids yielded so far by the forward walk, in the order received.
RECURSIVE Flatten(_)
Flatten(pages) == IF pages = <<>> THEN <<>> ELSE PageIds(Head(pages)) \o Flatten(Tail(pages))
Yielded == Flatten(trav.fwd)

\* C11: during a forward traversal over a dataset that changes between the
\* requests, no id is yielded twice, the ids are yielded in server order, and
\* every id that stayed in the dataset for the whole traversal and is ordered
\* at or before the last id yielded has been yielded.
C11_NoDuplicateNoSkip ==
    trav.phase \in {"fwd", "end"} =>
        /\ \A i, j \in 1..Len(Yielded) : i < j => Rank(Yielded[i]) < Rank(Yielded[j])
        /\ \A id \in Ids(dataset) \ trav.churned :
              (\E k \in 1..Len(Yielded) : Rank(id) <= Rank(Yielded[k]))
                  => id \in Ids(Yielded)

\* A traversal of several pages during which the page cursor's own item was
\* deleted and an item was inserted.
C11_Witness ==
    /\ trav.phase = "end" /\ Len(trav.fwd) >= 2 /\ Cardinality(trav.churned) = 2
    /\ \E p \in 1..(Len(trav.fwd) - 1) :
          /\ trav.fwd[p].list_metadata.after.some
          /\ trav.fwd[p].list_metadata.after.v \notin Ids(dataset)
    /\ \E id \in trav.churned : id \in Ids(dataset) /\ id \in Ids(Yielded)

\* The ids of the server's page for parameters p, and its two cursors.
ServerPageIds(p) ==
    SubSeq(dataset, PageLo(dataset, PaginationQuery(p)), PageHi(dataset, PaginationQuery(p)))
ServerCursor(p, key) == DecodeCursor(Get(PageJson(op, dataset, PaginationQuery(p)), "list_metadata"), key).v

\* C12: a list operation issued again with the same parameters against an
\* unchanged dataset returns a list equal to each one returned before, data
\* in the same order and the same before and after cursors: the server's page
\* for those parameters.
C12_Idempotent ==
    (trav.phase = "repeat" /\ Done /\ result.kind = "Ok") =>
        /\ \A i \in 1..Len(trav.fwd) : trav.fwd[i] = result.value
        /\ PageIds(result.value) = ServerPageIds(trav.params)
        /\ result.value.list_metadata.before = ServerCursor(trav.params, "before")
        /\ result.value.list_metadata.after = ServerCursor(trav.params, "after")

C12_Witness ==
    /\ trav.phase = "repeat" /\ Done /\ result.kind = "Ok" /\ op = "list_resource_types"
    /\ Len(trav.fwd) = MaxRepeats /\ trav.params.after.some /\ trav.params.limit = Limit(2)
    /\ Len(result.value.data) = 2 /\ result.value.list_metadata.after.some
    /\ result.value.list_metadata.before.some

\* C13: an invocation sends one request whatever the outcome: while it waits
\* and once it has returned with a response it has sent exactly one, it never
\* sends a second, and the step after the response arrives is its return.
C13_SingleExchange ==
    /\ [](sent <= 1)
    /\ []((pc \in {"sent", "responded"} \/ Responded) => sent = 1)
    /\ [][pc = "responded" => (pc' = "done" /\ sent' = sent /\ request' = request)]_vars

C13_Witness ==
    /\ Responded /\ sent = 1
    /\ op = "authenticate_with_device_code" /\ response.status = 400
    /\ result.kind = "Operation" /\ result.error.k = "AuthorizationPending"

\* The result of one invocation run alone on the client: Call, Respond and
\* Finish of the sequential machine with the same operation and response.
Alone(c) ==
    IF ~JoinUrl(baseUrl, RequestOf(c.op).path).ok THEN UrlParseError
    ELSE Run(c.op, c.response).result

C15_UnitNoDecode ==
    /\ UnitOps = {"delete_resource", "delete_policy", "delete_resource_type", "delete_warrant",
                  "batch_write_resources", "batch_write_warrants", "apply_schema",
                  "delete_factor", "delete_organization_domain"}
    /\ (Responded /\ op \in UnitOps /\ response.status \in {202, 204} /\ response.body = <<>>)
          => (result = OkResult(Unit) /\ reads = <<>>)

C15_Witness ==
    /\ Responded /\ op = "delete_factor" /\ response.status = 202 /\ response.body = <<>>
    /\ result = OkResult(Unit) /\ reads = <<>>

\* The call of the list warrants scenario: two filters set, every other
\* field Default; and the page the server answers it with.
DocumentViewers ==
    ListWarrantsParams(DefaultPagination, None, None, Some("viewer"), Some("document"), None)
OneWarrantPage == Serialise(PageJson("list_warrants", <<ItemId(1)>>, <<>>))
OneWarrantResult ==
    /\ result.kind = "Ok" /\ result.value.k = "PaginatedList"
    /\ Len(result.value.data) = 1
    /\ result.value.list_metadata = [before |-> None, after |-> None]

Occurrences(q, key) == {i \in DOMAIN q : q[i][1] = key}
PaginationOf(p) == PaginationParams(p.limit, p.before, p.after)
MembershipsSent ==
    /\ op = "list_organization_memberships" /\ sent = 1
    /\ PaginationOf(params) = DefaultPagination

\* C17: list_organization_memberships with default pagination sends a query
\* that contains order=desc and exactly one of the two filter keys, user_id
\* when the filter is User and organization_id when it is Organization; the
\* two keys never appear together.
C17_OneFilterKey ==
    MembershipsSent =>
        /\ HasParam(request.query, "order") /\ Param(request.query, "order") = "desc"
        /\ Cardinality(Occurrences(request.query, "user_id")
                       \cup Occurrences(request.query, "organization_id")) = 1
        /\ params.filter.variant = "User" =>
              /\ HasParam(request.query, "user_id")
              /\ Param(request.query, "user_id") = params.filter.user_id
        /\ params.filter.variant = "Organization" =>
              /\ HasParam(request.query, "organization_id")
              /\ Param(request.query, "organization_id") = params.filter.organization_id

C17_Witness ==
    /\ MembershipsSent /\ params.filter = Organization(DefaultOrganization)
    /\ params.statuses.some /\ Done /\ result.kind = "Ok"
    /\ request.query = << <<"order", "desc">>, <<"organization_id", DefaultOrganization>>,
                          <<"statuses", "active,pending">> >>

\* The success answer of the check endpoint for a subject that does not
\* have the relation on the resource.
NotAllowedAnswer == Serialise(JObj(<< <<"allowed", JBool(FALSE)>> >>))
NotAllowed == Operation([k |-> "NotAllowed"])

\* C18: check yields the operation error CheckError::NotAllowed when the
\* server's success answer says the subject is not allowed.
C18_NotAllowed ==
    (Responded /\ op = "check" /\ IsSuccess(response.status)
       /\ response.body = NotAllowedAnswer)
        => result = NotAllowed

\* What check does with that answer, and where NotAllowed does arise: the
\* answer allowed=false is returned as Ok(false), and NotAllowed is the
\* outcome of a success body that is JSON without a boolean `allowed`.
C18_OkFalse ==
    (Responded /\ op = "check" /\ ~IsErrorStatus(response.status) /\ BodyIsJson) =>
        LET j == ParseJson(response.body).v
        IN  IF HasKey(j, "allowed") /\ IsBool(Get(j, "allowed"))
            THEN result = OkResult(Get(j, "allowed"))
            ELSE result = NotAllowed

C18_Witness ==
    /\ Responded /\ op = "check" /\ response.status = 200
    /\ response.body = NotAllowedAnswer /\ result = OkResult(JBool(FALSE))

\* A server that serves /fga/v1/query for POST only: whether it serves a
\* request.
ServesQueryForPost(req) == req.verb = "POST" /\ req.url = <<GoodBase, "/fga/v1/query">>
QuerySent == op = "query" /\ sent = 1

\* C19: the query operation sends its request with verb POST to the path
\* /fga/v1/query carrying the Authorization bearer header, so that a server
\* which serves that path for POST only serves it.
C19_QueryIsPost ==
    QuerySent =>
        /\ request.verb = "POST" /\ request.url = <<baseUrl, "/fga/v1/query">>
        /\ request.bearer.some
        /\ ServesQueryForPost(request)

\* What query sends: a GET to /fga/v1/query, with the token the caller
\* gives, or else the API key, as the bearer.
C19_QueryIsGet ==
    QuerySent =>
        /\ request.verb = "GET" /\ request.url = <<baseUrl, "/fga/v1/query">>
        /\ request.bearer = (IF params.token.some THEN params.token ELSE Some(apiKey))
        /\ request.query = <<>>
        /\ ~ServesQueryForPost(request)

C19_Witness ==
    /\ QuerySent /\ request.verb = "GET" /\ request.bearer = Some(ApiKey)
    /\ ~ServesQueryForPost(request)
    /\ Responded /\ response.status = 404 /\ result.kind = "Unknown"

\* The resource operations whose result is one Resource, and the success
\* answers of the tests of the resource operations.
ResourceOps == {"get_resource", "update_resource"}
TypeIdAnswer ==
    /\ Responded /\ IsSuccess(response.status)
    /\ \/ op \in ResourceOps /\ response.body = Serialise(TypeIdResource("doc_123"))
       \/ op = "list_resources" /\ response.body = Serialise(TypeIdResourcePage)
IsResource(r, T, I) == r.k = "Resource" /\ r.resource_type = T /\ r.resource_id = I

\* C20: for get_resource, update_resource and list_resources a success body
\* describing a resource as {"type": T, "id": I, "metadata": ...} decodes to
\* Ok with Resource.resource_type = T and Resource.resource_id = I.
C20_TypeIdDecodes ==
    TypeIdAnswer =>
        /\ result.kind = "Ok"
        /\ op \in ResourceOps => IsResource(result.value, "document", "doc_123")
        /\ op = "list_resources" =>
              /\ Len(result.value.data) = 2
              /\ IsResource(result.value.data[1], "document", "doc_abc")
              /\ IsResource(result.value.data[2], "document", "doc_def")

\* What the three operations do with such a body: Resource has the fields
\* resource_type and resource_id and no rename, so the body does not decode
\* and the call ends in a RequestError; a body with the keys resource_type
\* and resource_id decodes to Ok.
C20_TypeIdIsDecodeError ==
    /\ TypeIdAnswer => (result = RequestError("decode") /\ reads = <<"T">>)
    /\ (Responded /\ op \in ResourceOps /\ IsSuccess(response.status)
          /\ response.body = Serialise(JObj(<< <<"resource_type", JStr("document")>>,
                                               <<"resource_id", JStr("doc_123")>> >>)))
          => (result.kind = "Ok" /\ IsResource(result.value, "document", "doc_123"))

C20_Witness ==
    /\ TypeIdAnswer /\ op = "list_resources" /\ response.status = 200
    /\ result = RequestError("decode")

C20_WitnessGet ==
    /\ TypeIdAnswer /\ op = "get_resource" /\ response.status = 200
    /\ result = RequestError("decode")

\* The KnownOrUnknown fields of a type with their enums, the value a string
\* is expected to decode to, and a JSON object with one member replaced.
KnownOrUnknownFields(T) ==
    CASE T = "Verification" -> {<<"type", "VerificationType">>, <<"status", "VerificationStatus">>}
      [] T = "DirectoryUser" -> {<<"state", "DirectoryUserState">>}
      [] T = "OrganizationMembership" -> {<<"status", "OrganizationMembershipStatus">>}
ExpectedKnownOrUnknown(E, str) ==
    IF \E v \in Variants(E) : SnakeCase(v) = str
    THEN Known(CHOOSE v \in Variants(E) : SnakeCase(v) = str)
    ELSE UnknownString(str)
SetKey(j, key, v) ==
    JObj([i \in 1..Len(j.m) |-> IF j.m[i][1] = key THEN <<key, v>> ELSE j.m[i]])
AKnownName(E) == SnakeCase(CHOOSE v \in Variants(E) : TRUE)

\* C21: a KnownOrUnknown<Enum, String> field holding the string s decodes to
\* Known(variant) when s is the snake_case name of a variant of Enum and to
\* Unknown(s) with s unchanged otherwise; the enclosing value never fails to
\* decode because s is unrecognised: when it fails, it fails as well with s
\* replaced by the name of a variant.
C21_KnownOrUnknown ==
    (Done /\ op \in DecodeTypes) =>
        \A j \in {ParseJson(response.body).v} :
          \A fe \in KnownOrUnknownFields(op) :
            HasStr(j, fe[1]) =>
              /\ result.kind = "Ok" =>
                    result.value[fe[1]] = ExpectedKnownOrUnknown(fe[2], Get(j, fe[1]).s)
              /\ result.kind # "Ok" =>
                    ~Decode(op, SetKey(j, fe[1], JStr(AKnownName(fe[2])))).ok

C21_Witness ==
    /\ Done /\ op = "Verification" /\ result.kind = "Ok"
    /\ result.value.type = UnknownString("unknown_verification_type")
    /\ result.value.status = Known("Succeeded")

RequestBuilt == request # NoRequest

\* C22 as stated: every operation attaches the client's API key as the
\* bearer token of the request it sends; no operation sends a request without
\* it or with a different bearer value.
C22_Original == RequestBuilt => request.bearer = Some(apiKey)

\* C22, amended: every operation but authenticate_with_device_code attaches a
\* bearer token, which is the client's API key except for query called with a
\* token, whose bearer is that token; authenticate_with_device_code sends its
\* request without a bearer token.
C22_BearerPerOperation ==
    RequestBuilt =>
        request.bearer =
            (IF op = "authenticate_with_device_code" THEN None
             ELSE IF op = "query" /\ params.token.some THEN params.token
             ELSE Some(apiKey))

C22_Witness ==
    /\ RequestBuilt /\ op = "authenticate_with_device_code" /\ request.bearer = None
    /\ Done /\ result.kind = "Ok"

\* C29: query(token, params) sends the token as the bearer value when token
\* is Some(t), and the API key does not appear in the request; it sends the
\* API key when token is None; one bearer value is sent in both cases.
C29_QueryToken ==
    (op = "query" /\ RequestBuilt) =>
        /\ request.bearer.some
        /\ params.token.some =>
              /\ request.bearer.v = params.token.v
              /\ request.bearer.v # apiKey
              /\ \A i \in DOMAIN request.query : request.query[i][2] # apiKey
              /\ \A i \in DOMAIN request.url : request.url[i] # apiKey
        /\ ~params.token.some => request.bearer.v = apiKey

C29_Witness ==
    /\ op = "query" /\ RequestBuilt /\ params.token = Some("token_1")
    /\ request.bearer = Some("token_1") /\ Done

\* The tagged outcome of the classifier in the result of an operation that
\* goes through it: the error it raised, or that it let the response pass.
Classified(r) ==
    IF r.kind \in {"Unauthorized", "Unknown"} THEN r ELSE [kind |-> "passed"]
SameResponseAsBefore ==
    /\ Responded /\ memo.set
    /\ memo.status = response.status /\ memo.body = response.body

IdKey(o) ==
    CASE o = "list_policies" -> "name"
      [] o \in {"list_resources", "list_warrants", "query"} -> "resource_id"
      [] o \in {"list_resource_types", "apply_resource_types"} -> "type"
      [] o = "list_organization_memberships" -> "id"
      [] o = "batch_check" -> "subject"
ServerItems(o, j) == IF o \in VecOps THEN j.a ELSE Get(j, "data").a
ReturnedItems(o, v) == IF o \in VecOps THEN v ELSE v.data

\* C24: an operation that returns a sequence returns the items in exactly
\* the order of the server's response, with the same length, without
\* reordering, filtering or de-duplication.
C24_ServerOrder ==
    (Responded /\ op \in SequenceOps /\ result.kind = "Ok") =>
        \A j \in {ParseJson(response.body).v} :
          /\ Len(ReturnedItems(op, result.value)) = Len(ServerItems(op, j))
          /\ \A i \in 1..Len(ServerItems(op, j)) :
                /\ ItemIdOf(ReturnedItems(op, result.value)[i])
                      = Get(ServerItems(op, j)[i], IdKey(op)).s
                /\ op = "batch_check" =>
                      ReturnedItems(op, result.value)[i].allowed
                        = Get(ServerItems(op, j)[i], "allowed").b

C24_Witness ==
    /\ Responded /\ op = "batch_check" /\ result.kind = "Ok"
    /\ Len(result.value) = 3
    /\ result.value[1].subject = ItemId(2) /\ result.value[2].subject = ItemId(1)
    /\ result.value[3].subject = ItemId(2) /\ result.value[2].allowed

C24_WitnessList ==
    /\ Responded /\ op = "list_resource_types" /\ result.kind = "Ok"
    /\ PageIds(result.value) = UnsortedIds

\* The shapes of a relation rule, structurally.
WellFormedInherit(r) ==
    HasKey(r, "inherit") /\ HasStr(Get(r, "inherit"), "relation")
    /\ HasStr(Get(r, "inherit"), "from")
RECURSIVE MatchesAShape(_)
WellFormedUnion(r) ==
    /\ HasKey(r, "union") /\ IsArr(Get(r, "union"))
    /\ \A i \in 1..Len(Get(r, "union").a) : MatchesAShape(Get(r, "union").a[i])
MatchesAShape(r) == HasKey(r, "this") \/ WellFormedInherit(r) \/ WellFormedUnion(r)
RuleDecoded == Done /\ op = "ResourceType" /\ HasKey(ParseJson(response.body).v, "relations")
                /\ IsObj(Get(ParseJson(response.body).v, "relations"))
TheRule == Get(Get(ParseJson(response.body).v, "relations"), "viewer")
DecodedRule == result.value.relations[1][2]

\* C25: a relation rule is decoded by trying This, Inherit, Union in that
\* order and taking the first that matches: an object with a this key is This
\* even if it has inherit or union too; without this, a well-formed inherit
\* gives Inherit even if union is there; Union is chosen only when neither
\* earlier shape matches; an object that matches none fails to decode.
C25_FirstMatch ==
    (RuleDecoded /\ IsObj(TheRule)) =>
        /\ HasKey(TheRule, "this") =>
              (result.kind = "Ok" /\ DecodedRule = This(Get(TheRule, "this")))
        /\ (~HasKey(TheRule, "this") /\ WellFormedInherit(TheRule)) =>
              /\ result.kind = "Ok" /\ DecodedRule.k = "Inherit"
              /\ DecodedRule.inherit.relation = Get(Get(TheRule, "inherit"), "relation").s
              /\ DecodedRule.inherit.from = Get(Get(TheRule, "inherit"), "from").s
        /\ (~HasKey(TheRule, "this") /\ ~WellFormedInherit(TheRule) /\ WellFormedUnion(TheRule)) =>
              /\ result.kind = "Ok" /\ DecodedRule.k = "Union"
              /\ Len(DecodedRule.union) = Len(Get(TheRule, "union").a)
        /\ (result.kind = "Ok" /\ DecodedRule.k = "Union") =>
              (~HasKey(TheRule, "this") /\ ~WellFormedInherit(TheRule))
        /\ ~MatchesAShape(TheRule) => result.kind # "Ok"

C25_Witness ==
    /\ RuleDecoded /\ IsObj(TheRule) /\ ~HasKey(TheRule, "this")
    /\ WellFormedInherit(TheRule) /\ WellFormedUnion(TheRule)
    /\ TheRule.m[1][1] = "union"
    /\ result.kind = "Ok" /\ DecodedRule.k = "Inherit"

\* The device-code exchange answered with a body that does not decode as
\* AuthenticateWithDeviceCodeError, and the Unknown built from that body.
TaggedDecodeFails ==
    /\ Responded /\ op = "authenticate_with_device_code"
    /\ ~BodyIsJson \/ ~DecodeDeviceCodeError(ParseJson(response.body).v).ok
UnknownOfBody ==
    Unknown(response.status,
            IF BodyIsJson THEN Json(ParseJson(response.body).v) ELSE Text(TextOf(response.body)))

CheckAnswered == Responded /\ op = "check" /\ IsSuccess(response.status) /\ BodyIsJson
AllowedIsBool ==
    LET j == ParseJson(response.body).v
    IN  HasKey(j, "allowed") /\ IsBool(Get(j, "allowed"))

C28_WitnessFalse ==
    /\ CheckAnswered /\ AllowedIsBool
    /\ Get(ParseJson(response.body).v, "allowed") = JBool(FALSE)
    /\ result = OkResult(JBool(FALSE)) /\ Head(reads) # "E"
C28_WitnessMissing ==
    /\ CheckAnswered /\ ~HasKey(ParseJson(response.body).v, "allowed")
    /\ result = NotAllowed

\* The request of get_organization_by_external_id has been built.
ExternalIdRequested == op = "get_organization_by_external_id" /\ request # NoRequest
RequestedUrl == request.url[2]
OneSegmentOfId ==
    /\ Len(RequestedUrl.path) = 3
    /\ SubSeq(RequestedUrl.path, 1, 2) = << <<"organizations">>, <<"external_id">> >>
    /\ percent_decode(RequestedUrl.path[3]) = params.external_id
    /\ RequestedUrl.query = None
    /\ RequestedUrl.fragment = None

\* C30: for every external_id the request path of
\* get_organization_by_external_id is /organizations/external_id/ followed
\* by exactly one segment that decodes back to external_id, and the request
\* has no query string and no fragment.
C30_OneSegment == ExternalIdRequested => OneSegmentOfId

\* What holds of the request: the same, for every external_id other than
\* "." and "..", which the percent-encoding leaves as they are and the URL
\* parser resolves as dot segments.
DotSegments == {<<".">>, <<".", ".">>}
C30_OneSegmentUnlessDots ==
    ExternalIdRequested =>
        IF params.external_id \in DotSegments
        THEN /\ RequestedUrl.query = None /\ RequestedUrl.fragment = None
             /\ RequestedUrl.path =
                    (IF params.external_id = <<".">>
                     THEN << <<"organizations">>, <<"external_id">>, <<>> >>
                     ELSE << <<"organizations">>, <<>> >>)
        ELSE OneSegmentOfId

C30_Witness ==
    /\ ExternalIdRequested /\ params.external_id = <<"/", "?", "#">>
    /\ RequestedUrl.path[3] = <<"%", "2", "F", "%", "3", "F", "%", "2", "3">>
    /\ Responded /\ result.kind = "Ok"
C30_WitnessDots ==
    /\ ExternalIdRequested /\ params.external_id = <<".", ".">>
    /\ RequestedUrl.path = << <<"organizations">>, <<>> >>
    /\ sent = 1

\* An operation has been called; the outcomes that only a response gives.
Called == op \in Operations /\ pc # "idle"
FromResponse == {"Unauthorized", "Unknown", "Operation"}
\* The client's base URL is one no path can be joined onto.
CannotBeABase == baseUrl = OpaqueBase

\* C27: in every operation the URL is built before anything is sent: when
\* joining the path onto the base URL fails the operation returns
\* UrlParseError and no request is issued; when sending fails before a
\* response arrives the operation returns RequestError; neither case yields
\* Unauthorized, Unknown or Operation.
C27_BuildThenSend ==
    Called =>
        /\ CannotBeABase =>
              /\ Done /\ result = UrlParseError
              /\ sent = 0 /\ request = NoRequest /\ response = NoResponse
        /\ sent = 1 =>
              /\ ~CannotBeABase
              /\ request.url = <<baseUrl, RequestOf(op).path>>
        /\ (Done /\ sent = 1 /\ response = NoResponse) => result = RequestError("transport")
        /\ (Done /\ result.kind \in FromResponse) => (sent = 1 /\ response # NoResponse)

C27_Witness ==
    /\ Called /\ Done /\ op = "delete_resource" /\ baseUrl = OpaqueBase
    /\ result = UrlParseError /\ sent = 0 /\ request = NoRequest
C27_WitnessSend ==
    /\ Called /\ Done /\ op = "delete_resource" /\ sent = 1 /\ response = NoResponse
    /\ result = RequestError("transport") /\ request.verb = "DELETE"

====
